---------------------------- MODULE Spec2Model ----------------------------
(***************************************************************************)
(* A model of the queue-run dispatch core:                                 *)
(*   - the SQS batch dispatcher (handleSQSMessages, handleFifoMessages,    *)
(*     handleStandardMessages, handleOneMessage),                          *)
(*   - the HTTP request engine (handleHTTPRequest, handleRoute,            *)
(*     runWithMiddleware, handleOnResponse, handleOnError) and the making  *)
(*     of the Response from the handler's result,                          *)
(*   - the manifest loader (loadServices) and the URL builder (url.for),   *)
(*   - the WebSocket events (handleWebSocketRequest),                      *)
(*   - the runtime package's handleSQSMessages with its FIFO groups,       *)
(*   - the ambient context (LocalStorage, getLocalStorage,                 *)
(*     withLocalStorage).                                                  *)
(* Each part has its own specification; the variables of the other parts   *)
(* stay at their idle values.                                              *)
(***************************************************************************)
EXTENDS Integers, Sequences, FiniteSets, TLC

VARIABLES
  \* ---- runtime package: SQS messages of a Lambda event ----
  records,           \* event.Records, with each record's source and message group
  sqsPc,             \* position of handleSQSMessages
  groups,            \* per group: handleFifoGroup's `messages` array (shifted)
  groupPc,           \* per group: position of handleFifoGroup
  groupMessage,      \* per group: handleFifoGroup's current `message` (0: none)
  interval,          \* per group: the setInterval timer
  visibility,        \* per group: the `visibility` promise
  oneMessage,        \* per record: position of its handleOneMessage call
  visibilityTimeout, \* per record: the VisibilityTimeout last asked for (-1: none)
  removed,           \* the records deleted from the queue
  invoked,           \* the records the handler was invoked with, in order
  \* ---- WebSocket events ----
  connections,       \* the connection store: the user of every bound connection
  socketEvents,      \* the events given to handleWebSocketRequest, and how far each is
  onOfflineLog,      \* the user ids onOffline was called with, in order
  \* ---- queue dispatcher ----
  queueName,         \* the queue's short name, as a sequence of tokens
  module,            \* what loadModule gives for the queue
  region,            \* sqs.config.region()
  batch,             \* the batch as it arrived (message ids, in order)
  messages,          \* the `messages` array (handleFifoMessages shifts it)
  message,           \* handleFifoMessages' current `message` (0: none)
  dispatch,          \* per message: the state of its handleOneMessage call
  deleted,           \* queue backend: ids removed by sqs.deleteMessage
  handlerLog,        \* the ids module.handler was invoked with, in order
  batchPc,           \* position of the batch function
  batchItemFailures, \* the report returned by the batch function
  \* ---- HTTP request engine ----
  middleware,        \* which of onRequest, authenticate, onResponse, onError exist
  httpPc,            \* position of the request in handleRoute / runWithMiddleware
  calls,             \* user code invoked so far: call and end events, in order
  outcome,           \* per user function: how its call ended
  onResponseArg,     \* the response onResponse was called with
  onErrorArg,        \* the error onError was called with
  error,             \* handleOnError's `error`
  response,          \* the pipeline's current `response`
  result,            \* what runWithMiddleware resolved with
  returned,          \* the response given back for the request
  timer,             \* handleRoute's deadline timer
  signalAborted,     \* controller.signal.aborted
  user,              \* the user returned by authenticate
  storeUser,         \* the ambient context's user cell, once assigned
  \* ---- HTTP request, before the pipeline ----
  request,           \* the request: method and content-type header
  route,             \* what findRoute gives: found or not, cors, methods, accepts
  exports,           \* the names the route module exports handlers under
  corsHeaders,       \* handleHTTPRequest's `corsHeaders`
  \* ---- HTTP responses: from the handler's result to the answer ----
  routeConfig,       \* the route module's config: its cache and etag policies
  handled,           \* per request: what the handler does (returns or throws)
  answer,            \* per request: the Response given back, once there is one
  \* ---- manifest loader ----
  project,           \* the files glob finds under api/ and queues/, with their configs
  loadPc,            \* position of loadServices
  position,          \* the index of the file (or queue) the current loop is at
  queues,            \* loadQueues' `queues` map, in insertion order
  routes,            \* loadRoutes' `routes` map, in insertion order
  dupes,             \* loadRoutes' `dupes` set of signatures
  services,          \* what loadServices returned
  loadError,         \* the error loadServices threw
  \* ---- URL builder ----
  routePath,         \* the path of a route of the manifest, matcher and template
  written,           \* the template as given to url.for
  pathname,          \* the pathname of the incoming URL
  urlPc,             \* "incoming", "matched", "missed", "built"
  matched,           \* what the route's matcher gave for the pathname
  href,              \* what url.for(written).relative(params) gave
  \* ---- ambient context ----
  locals,            \* the LocalStorage instances opened so far
  tasks,             \* asynchronous execution contexts and the store each carries
  lastRead,          \* the most recent getLocalStorage(): who read, what came back
  lastSet            \* the most recent assignment to user: who, what, what it threw

qVars == <<queueName, module, region, batch, messages, message, dispatch,
           deleted, handlerLog, batchPc, batchItemFailures>>

hVars == <<middleware, httpPc, calls, outcome, onResponseArg, onErrorArg, error,
           response, result, returned, timer, signalAborted, user, storeUser>>

rVars == <<request, route, exports, corsHeaders>>

cVars == <<routeConfig, handled, answer>>

mVars == <<project, loadPc, position, queues, routes, dupes, services, loadError>>

uVars == <<routePath, written, pathname, urlPc, matched, href>>

wVars == <<connections, socketEvents, onOfflineLog>>

sVars == <<records, sqsPc, groups, groupPc, groupMessage, interval, visibility,
           oneMessage, visibilityTimeout, removed, invoked>>

lVars == <<locals, tasks, lastRead, lastSet>>

vars == <<qVars, hVars, rVars, cVars, mVars, uVars, lVars, wVars, sVars>>

otherThanQueue == <<hVars, rVars, cVars, mVars, uVars, lVars, wVars, sVars>>
\* what the steps of the pipeline leave alone
otherThanHttp == <<qVars, rVars, cVars, mVars, uVars, lVars, wVars, sVars>>
otherThanLocal == <<qVars, hVars, rVars, cVars, mVars, uVars, wVars, sVars>>
\* what the making of the answer leaves alone
otherThanResult == <<qVars, hVars, request, route, exports, mVars, uVars, lVars, wVars, sVars>>
otherThanUrl == <<qVars, hVars, rVars, cVars, mVars, lVars, wVars, sVars>>
otherThanRuntime == <<qVars, hVars, rVars, cVars, mVars, uVars, lVars, wVars>>
otherThanSocket == <<qVars, hVars, rVars, cVars, mVars, uVars, lVars, sVars>>
otherThanLoader == <<qVars, hVars, rVars, cVars, uVars, lVars, wVars, sVars>>

-----------------------------------------------------------------------------
(* Bounds: the longest FIFO batch and the longest standard batch; the events *)
(* in flight together and the asynchronous tasks running for them           *)
MaxFifoBatch == 3
MaxStandardBatch == 2
MaxEvents == 2
MaxTasks == 4
MaxFiles == 2
MaxSegments == 3
MaxConnections == 2

-----------------------------------------------------------------------------
(* Generic helpers *)
Min(a, b) == IF a <= b THEN a ELSE b
Max(a, b) == IF a >= b THEN a ELSE b
Last(s) == s[Len(s)]
Range(s) == {s[i] : i \in 1..Len(s)}

RECURSIVE SelectSeqIdx(_, _)
\* the subsequence of s of the entries that are not falsy (0 stands for null)
SelectSeqIdx(s, n) ==
  IF n = 0 THEN <<>>
  ELSE IF s[n] # 0 THEN Append(SelectSeqIdx(s, n - 1), s[n])
       ELSE SelectSeqIdx(s, n - 1)

-----------------------------------------------------------------------------
(***************************************************************************)
(* Queue dispatcher                                                        *)
(***************************************************************************)
minTimeout == 1
maxTimeout == 30
defaultTimeout == 10

\* config.timeout values tried (seconds)
ConfigTimeouts == {0, 20, 600}
\* values getRemainingTimeInMillis() gives
RemainingMillis == {0, 7, 20000}

Regions == {"localhost", "us-east-1"}
QueueNames == {<<"jobs">>, <<"jobs", ".fifo">>}

NoModule == [present |-> FALSE, hasTimeout |-> FALSE, timeout |-> 0, onError |-> FALSE]
Modules ==
  {NoModule}
  \cup [present : {TRUE}, hasTimeout : {FALSE}, timeout : {0}, onError : BOOLEAN]
  \cup [present : {TRUE}, hasTimeout : {TRUE}, timeout : ConfigTimeouts, onError : BOOLEAN]

Ids == 1..(IF MaxFifoBatch >= MaxStandardBatch THEN MaxFifoBatch ELSE MaxStandardBatch)

\* getTimeout: config.timeout ?? defaultTimeout, clamped to [minTimeout, maxTimeout]
getTimeout(config) ==
  Min(Max(IF config.hasTimeout THEN config.timeout ELSE defaultTimeout, minTimeout),
      maxTimeout)

\* getTimeout of the runtime package: Math.min(config.timeout ?? 30, 10)
getTimeoutOfRuntime(config) ==
  Min(IF config.hasTimeout THEN config.timeout ELSE 30, 10)

\* isFifoQueue: the queue name ends with .fifo
isFifoQueue(name) == Last(name) = ".fifo"

\* a handleOneMessage call that has not started
NotDispatched ==
  [pc |-> "pending", remainingTime |-> 0, timeout |-> 0, abortTimeout |-> "none",
   aborted |-> FALSE, handler |-> "notInvoked", deleteRequested |-> FALSE,
   onErrorCalls |-> 0, onErrorResult |-> "none"]

Returned(d) == d.pc \in {"returnedTrue", "returnedFalse"}
Settled(d) == d.pc \in {"returnedTrue", "returnedFalse", "threw"}


\* message.messageId
messageId(m) == m

\* .map((message) => ({ itemIdentifier: message.messageId }))
itemIdentifiers(ms) == [k \in 1..Len(ms) |-> messageId(ms[k])]

\* a faulty report that leaves out the message that failed
FifoFailuresWithoutFailed(failed, remaining) == itemIdentifiers(remaining)

\* handleFifoMessages' report on the first failure: [message].concat(messages)
FifoFailures(failed, remaining) == itemIdentifiers(<<failed>> \o remaining)

\* handleStandardMessages: one entry per message, null (0) when it succeeded
failedMessageIds ==
  [k \in 1..Len(messages) |->
     IF dispatch[messages[k]].pc = "returnedTrue" THEN 0 ELSE messageId(messages[k])]

\* a faulty report that keeps the ids of only the messages after the first
StandardFailuresTail ==
  SelectSeqIdx([k \in 1..Len(failedMessageIds) |->
                  IF k = 1 THEN 0 ELSE failedMessageIds[k]], Len(failedMessageIds))

\* a faulty report that gives the whole batch as failed when one message failed
StandardFailuresOfAll ==
  IF \E k \in 1..Len(failedMessageIds) : failedMessageIds[k] # 0
  THEN itemIdentifiers(messages)
  ELSE <<>>

\* handleStandardMessages' report: failedMessageIds.filter(Boolean)
StandardFailures == SelectSeqIdx(failedMessageIds, Len(failedMessageIds))

\* handleOneMessage up to its first await (loadModule)
StartOneMessage(remainingTime) ==
  [NotDispatched EXCEPT !.pc = "loadModule", !.remainingTime = remainingTime]

\* finally: clearTimeout(abortTimeout); controller.abort()
Finally(d) ==
  [d EXCEPT !.abortTimeout = IF @ = "set" THEN "cleared" ELSE @, !.aborted = TRUE]

\* return true, through finally
ReturnTrue(d) == Finally([d EXCEPT !.pc = "returnedTrue"])

\* return false, through finally
ReturnFalse(d) == Finally([d EXCEPT !.pc = "returnedFalse"])

\* a faulty catch block that reports success
CatchReturnsTrue(d) == ReturnTrue(d)

\* catch (error): log, call module.onError if the module exports it, else return false
Catch(d) ==
  IF module.onError
  THEN [d EXCEPT !.pc = "onError", !.onErrorCalls = @ + 1]
  ELSE ReturnFalse(d)

\* a faulty timeout that does not look at the remaining time
EffectiveTimeoutOfConfig(d) == getTimeout(module)

\* const timeout = Math.min(getTimeout(module.config), remainingTime)
EffectiveTimeout(d) == Min(getTimeout(module), d.remainingTime)

\* setTimeout(() => controller.abort(), timeout * 1000): the delay in milliseconds
AbortDelay(d) == d.timeout * 1000

QueueInit ==
  /\ queueName \in QueueNames
  /\ module \in Modules
  /\ region \in Regions
  /\ \E n \in 1..(IF isFifoQueue(queueName) THEN MaxFifoBatch ELSE MaxStandardBatch) :
       batch = [k \in 1..n |-> k]
  /\ messages = batch
  /\ message = 0
  /\ dispatch = [i \in Ids |-> NotDispatched]
  /\ deleted = {}
  /\ handlerLog = <<>>
  /\ batchPc = "running"
  /\ batchItemFailures = <<>>

\* a faulty loop that does not await handleOneMessage before the next shift
FifoShiftWithoutAwait ==
  /\ isFifoQueue(queueName)
  /\ batchPc = "running"
  /\ messages # <<>>
  /\ \E remainingTime \in RemainingMillis :
       /\ IF message = 0 THEN TRUE
          ELSE remainingTime <= dispatch[message].remainingTime
       /\ dispatch' = [dispatch EXCEPT ![Head(messages)] = StartOneMessage(remainingTime)]
  /\ message' = Head(messages)
  /\ messages' = Tail(messages)
  /\ UNCHANGED <<queueName, module, region, batch, deleted, handlerLog, batchPc,
                 batchItemFailures>>
  /\ UNCHANGED otherThanQueue

\* handleFifoMessages: while ((message = messages.shift())) handleOneMessage(...)
FifoShift ==
  /\ isFifoQueue(queueName)
  /\ batchPc = "running"
  /\ IF message = 0 THEN TRUE ELSE dispatch[message].pc = "returnedTrue"
  /\ messages # <<>>
  /\ \E remainingTime \in RemainingMillis :
       /\ IF message = 0 THEN TRUE
          ELSE remainingTime <= dispatch[message].remainingTime
       /\ dispatch' = [dispatch EXCEPT ![Head(messages)] = StartOneMessage(remainingTime)]
  /\ message' = Head(messages)
  /\ messages' = Tail(messages)
  /\ UNCHANGED <<queueName, module, region, batch, deleted, handlerLog, batchPc,
                 batchItemFailures>>
  /\ UNCHANGED otherThanQueue

\* handleFifoMessages: if (!successful) return the failed message and the rest
FifoFail ==
  /\ isFifoQueue(queueName)
  /\ batchPc = "running"
  /\ message # 0
  /\ dispatch[message].pc = "returnedFalse"
  /\ batchItemFailures' = FifoFailures(message, messages)
  /\ batchPc' = "returned"
  /\ UNCHANGED <<queueName, module, region, batch, messages, message, dispatch,
                 deleted, handlerLog>>
  /\ UNCHANGED otherThanQueue

\* handleFifoMessages: the array is empty, return { batchItemFailures: [] }
FifoDone ==
  /\ isFifoQueue(queueName)
  /\ batchPc = "running"
  /\ message # 0
  /\ dispatch[message].pc = "returnedTrue"
  /\ messages = <<>>
  /\ batchItemFailures' = <<>>
  /\ batchPc' = "returned"
  /\ UNCHANGED <<queueName, module, region, batch, messages, message, dispatch,
                 deleted, handlerLog>>
  /\ UNCHANGED otherThanQueue

\* handleFifoMessages: handleOneMessage rejected, so the batch function rejects
FifoReject ==
  /\ isFifoQueue(queueName)
  /\ batchPc = "running"
  /\ message # 0
  /\ dispatch[message].pc = "threw"
  /\ batchPc' = "rejected"
  /\ UNCHANGED <<queueName, module, region, batch, messages, message, dispatch,
                 deleted, handlerLog, batchItemFailures>>
  /\ UNCHANGED otherThanQueue

\* handleStandardMessages: messages.map(async ...) starts every handleOneMessage
StandardDispatch ==
  /\ ~isFifoQueue(queueName)
  /\ batchPc = "running"
  /\ \E remainingTime \in [1..Len(messages) -> RemainingMillis] :
       /\ \A k \in 1..(Len(messages) - 1) : remainingTime[k + 1] <= remainingTime[k]
       /\ dispatch' = [i \in Ids |->
                         IF i \in 1..Len(messages)
                         THEN StartOneMessage(remainingTime[i])
                         ELSE dispatch[i]]
  /\ batchPc' = "awaitAll"
  /\ UNCHANGED <<queueName, module, region, batch, messages, message, deleted,
                 handlerLog, batchItemFailures>>
  /\ UNCHANGED otherThanQueue

\* handleStandardMessages: Promise.all resolved, return the failed ids
StandardReturn ==
  /\ batchPc = "awaitAll"
  /\ \A k \in 1..Len(messages) : Returned(dispatch[messages[k]])
  /\ batchItemFailures' = StandardFailures
  /\ batchPc' = "returned"
  /\ UNCHANGED <<queueName, module, region, batch, messages, message, dispatch,
                 deleted, handlerLog>>
  /\ UNCHANGED otherThanQueue

\* handleStandardMessages: Promise.all rejects as soon as one handleOneMessage rejects
StandardReject ==
  /\ batchPc = "awaitAll"
  /\ \E k \in 1..Len(messages) : dispatch[messages[k]].pc = "threw"
  /\ batchPc' = "rejected"
  /\ UNCHANGED <<queueName, module, region, batch, messages, message, dispatch,
                 deleted, handlerLog, batchItemFailures>>
  /\ UNCHANGED otherThanQueue

\* handleOneMessage: loadModule resolved; no module throws; timeout <= 0 returns
\* false; otherwise the abort timer is set, the payload parsed and the handler invoked
LoadModule(i) ==
  /\ dispatch[i].pc = "loadModule"
  /\ IF ~module.present
     THEN /\ dispatch' = [dispatch EXCEPT ![i].pc = "threw"]
          /\ UNCHANGED handlerLog
     ELSE IF EffectiveTimeout(dispatch[i]) <= 0
     THEN /\ dispatch' = [dispatch EXCEPT ![i].pc = "returnedFalse"]
          /\ UNCHANGED handlerLog
     ELSE \E payloadParsed \in BOOLEAN :
            LET d == [dispatch[i] EXCEPT !.timeout = EffectiveTimeout(dispatch[i]),
                                         !.abortTimeout = "set"]
            IN IF payloadParsed
               THEN /\ dispatch' = [dispatch EXCEPT
                                      ![i] = [d EXCEPT !.pc = "race", !.handler = "running"]]
                    /\ handlerLog' = Append(handlerLog, i)
               ELSE /\ dispatch' = [dispatch EXCEPT ![i] = Catch(d)]
                    /\ UNCHANGED handlerLog
  /\ UNCHANGED <<queueName, module, region, batch, messages, message, deleted,
                 batchPc, batchItemFailures>>
  /\ UNCHANGED otherThanQueue

\* the handler's promise resolves before the abort: on to await sqs.config.region()
HandlerReturns(i) ==
  /\ dispatch[i].pc = "race"
  /\ dispatch' = [dispatch EXCEPT ![i].pc = "region", ![i].handler = "returned"]
  /\ UNCHANGED <<queueName, module, region, batch, messages, message, deleted,
                 handlerLog, batchPc, batchItemFailures>>
  /\ UNCHANGED otherThanQueue

\* the handler's promise rejects before the abort: the catch block runs
HandlerThrows(i) ==
  /\ dispatch[i].pc = "race"
  /\ dispatch' = [dispatch EXCEPT ![i] = Catch([dispatch[i] EXCEPT !.handler = "threw"])]
  /\ UNCHANGED <<queueName, module, region, batch, messages, message, deleted,
                 handlerLog, batchPc, batchItemFailures>>
  /\ UNCHANGED otherThanQueue

\* a faulty deadline after which the aborted signal is not looked at
AbortTimeoutUnseen(i) ==
  /\ dispatch[i].abortTimeout = "set"
  /\ LET d == [dispatch[i] EXCEPT !.abortTimeout = "fired", !.aborted = TRUE]
     IN dispatch' = [dispatch EXCEPT
                       ![i] = IF d.pc = "race" THEN [d EXCEPT !.pc = "region"] ELSE d]
  /\ UNCHANGED <<queueName, module, region, batch, messages, message, deleted,
                 handlerLog, batchPc, batchItemFailures>>
  /\ UNCHANGED otherThanQueue

\* setTimeout(() => controller.abort(), timeout * 1000) fires; when the race is
\* still open it resolves, signal.aborted is seen and the Timeout error is thrown
AbortTimeout(i) ==
  /\ dispatch[i].abortTimeout = "set"
  /\ LET d == [dispatch[i] EXCEPT !.abortTimeout = "fired", !.aborted = TRUE]
     IN dispatch' = [dispatch EXCEPT ![i] = IF d.pc = "race" THEN Catch(d) ELSE d]
  /\ UNCHANGED <<queueName, module, region, batch, messages, message, deleted,
                 handlerLog, batchPc, batchItemFailures>>
  /\ UNCHANGED otherThanQueue

\* a handler that lost the race settles later: nothing awaits it any more
AbandonedHandlerSettles(i) ==
  /\ dispatch[i].handler = "running"
  /\ dispatch[i].pc # "race"
  /\ \E how \in {"returned", "threw"} :
       dispatch' = [dispatch EXCEPT ![i].handler = how]
  /\ UNCHANGED <<queueName, module, region, batch, messages, message, deleted,
                 handlerLog, batchPc, batchItemFailures>>
  /\ UNCHANGED otherThanQueue

\* (await sqs.config.region()) !== "localhost": request the delete, else return true
RegionResolves(i) ==
  /\ dispatch[i].pc = "region"
  /\ IF region # "localhost"
     THEN dispatch' = [dispatch EXCEPT ![i].pc = "deleteMessage",
                                       ![i].deleteRequested = TRUE]
     ELSE dispatch' = [dispatch EXCEPT ![i] = ReturnTrue(dispatch[i])]
  /\ UNCHANGED <<queueName, module, region, batch, messages, message, deleted,
                 handlerLog, batchPc, batchItemFailures>>
  /\ UNCHANGED otherThanQueue

\* sqs.deleteMessage resolved: return true
DeleteMessageSucceeds(i) ==
  /\ dispatch[i].pc = "deleteMessage"
  /\ deleted' = deleted \cup {messageId(i)}
  /\ dispatch' = [dispatch EXCEPT ![i] = ReturnTrue(dispatch[i])]
  /\ UNCHANGED <<queueName, module, region, batch, messages, message, handlerLog,
                 batchPc, batchItemFailures>>
  /\ UNCHANGED otherThanQueue

\* sqs.deleteMessage rejected: the catch block runs
DeleteMessageFails(i) ==
  /\ dispatch[i].pc = "deleteMessage"
  /\ dispatch' = [dispatch EXCEPT ![i] = Catch(dispatch[i])]
  /\ UNCHANGED <<queueName, module, region, batch, messages, message, deleted,
                 handlerLog, batchPc, batchItemFailures>>
  /\ UNCHANGED otherThanQueue

\* a faulty handling of onError in which its exception leaves handleOneMessage
OnErrorSettlesOrRejects(i) ==
  /\ dispatch[i].pc = "onError"
  /\ \E how \in {"returned", "threw"} :
       dispatch' = [dispatch EXCEPT
                      ![i] = IF how = "threw"
                             THEN Finally([dispatch[i] EXCEPT !.onErrorResult = how,
                                                              !.pc = "threw"])
                             ELSE ReturnFalse([dispatch[i] EXCEPT !.onErrorResult = how])]
  /\ UNCHANGED <<queueName, module, region, batch, messages, message, deleted,
                 handlerLog, batchPc, batchItemFailures>>
  /\ UNCHANGED otherThanQueue

\* module.onError settled (a throw is only logged): return false
OnErrorSettles(i) ==
  /\ dispatch[i].pc = "onError"
  /\ \E how \in {"returned", "threw"} :
       dispatch' = [dispatch EXCEPT
                      ![i] = ReturnFalse([dispatch[i] EXCEPT !.onErrorResult = how])]
  /\ UNCHANGED <<queueName, module, region, batch, messages, message, deleted,
                 handlerLog, batchPc, batchItemFailures>>
  /\ UNCHANGED otherThanQueue

QueueNext ==
  \/ FifoShift
  \/ FifoFail
  \/ FifoDone
  \/ FifoReject
  \/ StandardDispatch
  \/ StandardReturn
  \/ StandardReject
  \/ \E i \in Ids : LoadModule(i)
  \/ \E i \in Ids : HandlerReturns(i)
  \/ \E i \in Ids : HandlerThrows(i)
  \/ \E i \in Ids : AbortTimeout(i)
  \/ \E i \in Ids : AbandonedHandlerSettles(i)
  \/ \E i \in Ids : RegionResolves(i)
  \/ \E i \in Ids : DeleteMessageSucceeds(i)
  \/ \E i \in Ids : DeleteMessageFails(i)
  \/ \E i \in Ids : OnErrorSettles(i)

-----------------------------------------------------------------------------
(***************************************************************************)
(* JavaScript values and the making of a Response from a handler's result: *)
(* resultToResponse, addETag, addCacheControl                              *)
(***************************************************************************)
\* no headers (undefined, or new Headers())
NoHeaders == <<>>

\* new Response(body, { headers, status })
Response(body, headers, status) == [status |-> status, body |-> body, headers |-> headers]

\* headers.has(name), headers.set(name, value), { ...a, ...b }
Has(headers, name) == name \in DOMAIN headers
Set(headers, name, value) ==
  [h \in DOMAIN headers \cup {name} |-> IF h = name THEN value ELSE headers[h]]
Spread(a, b) == [h \in DOMAIN a \cup DOMAIN b |-> IF h \in DOMAIN b THEN b[h] ELSE a[h]]

\* JavaScript values, by their type, each with the one field that is its own:
\* an object is its properties in order, an array its elements; "cyclic" is an
\* object that refers to itself
NoAnswer == Response("", NoHeaders, 0)
Blank ==
  [type |-> "", bool |-> FALSE, num |-> 0, str |-> "", props |-> <<>>,
   items |-> <<>>, response |-> NoAnswer]
Undefined == [Blank EXCEPT !.type = "undefined"]
Null == [Blank EXCEPT !.type = "null"]
Boolean(b) == [Blank EXCEPT !.type = "boolean", !.bool = b]
Number(n) == [Blank EXCEPT !.type = "number", !.num = n]
String(s) == [Blank EXCEPT !.type = "string", !.str = s]
Buffer(s) == [Blank EXCEPT !.type = "buffer", !.str = s]
Object(props) == [Blank EXCEPT !.type = "object", !.props = props]
Array(elements) == [Blank EXCEPT !.type = "array", !.items = elements]
Cyclic == [Blank EXCEPT !.type = "cyclic"]
Function(name) == [Blank EXCEPT !.type = "function", !.str = name]
ResponseValue(r) == [Blank EXCEPT !.type = "Response", !.response = r]
AnError == [Blank EXCEPT !.type = "Error", !.str = "failed"]

\* a property of an object: its key and its value, a number or undefined
Property(key, v) == [key |-> key, value |-> v]

RECURSIVE Keys(_)
\* Object.keys(result).join("")
Keys(props) == IF Len(props) = 0 THEN "" ELSE Head(props).key \o Keys(Tail(props))

\* the truthiness of a value
ToBoolean(v) ==
  CASE v.type \in {"undefined", "null"} -> FALSE
    [] v.type = "boolean" -> v.bool
    [] v.type = "number" -> v.num # 0
    [] v.type = "string" -> v.str # ""
    [] OTHER -> TRUE

Digit(d) ==
  CASE d = 0 -> "0" [] d = 1 -> "1" [] d = 2 -> "2" [] d = 3 -> "3" [] d = 4 -> "4"
    [] d = 5 -> "5" [] d = 6 -> "6" [] d = 7 -> "7" [] d = 8 -> "8" [] d = 9 -> "9"

\* String(n) of an integer
RECURSIVE NumberToString(_)
NumberToString(n) ==
  IF n < 0 THEN "-" \o NumberToString(0 - n)
  ELSE IF n < 10 THEN Digit(n)
  ELSE NumberToString(n \div 10) \o Digit(n % 10)

\* JSON.stringify of the elements of an array: undefined becomes null
RECURSIVE StringifyElements(_)
StringifyElements(elements) ==
  IF Len(elements) = 0 THEN ""
  ELSE (IF Head(elements).type = "number" THEN NumberToString(Head(elements).num)
        ELSE "null")
       \o (IF Len(elements) > 1 THEN "," ELSE "")
       \o StringifyElements(Tail(elements))

\* the properties JSON.stringify keeps: those whose value is not undefined
RECURSIVE Defined(_)
Defined(props) ==
  IF Len(props) = 0 THEN <<>>
  ELSE IF Head(props).value.type = "undefined" THEN Defined(Tail(props))
  ELSE <<Head(props)>> \o Defined(Tail(props))

RECURSIVE StringifyMembers(_)
StringifyMembers(props) ==
  IF Len(props) = 0 THEN ""
  ELSE "\"" \o Head(props).key \o "\":" \o NumberToString(Head(props).value.num)
       \o (IF Len(props) > 1 THEN "," ELSE "")
       \o StringifyMembers(Tail(props))

\* JSON.stringify(value) of a value it does not throw for
JSONStringify(v) ==
  CASE v.type = "number" -> NumberToString(v.num)
    [] v.type = "boolean" -> IF v.bool THEN "true" ELSE "false"
    [] v.type = "null" -> "null"
    [] v.type = "array" -> "[" \o StringifyElements(v.items) \o "]"
    [] v.type = "object" -> "{" \o StringifyMembers(Defined(v.props)) \o "}"

\* JSON.stringify(value) throws: Converting circular structure to JSON
StringifyThrows(v) == v.type = "cyclic"

\* crypto.createHash("md5").update(content).digest("hex"): a function of the content
md5(content) == "md5(" \o content \o ")"

\* addETag: leave a header that is there, add none for a falsy etag, else add
\* the string given or the digest of the content
addETag(headers, content, etag) ==
  IF Has(headers, "ETag") \/ ~ToBoolean(etag) THEN headers
  ELSE Set(headers, "ETag", IF etag.type = "string" THEN etag.str ELSE md5(content))

\* addCacheControl: leave a header that is there, add none for a falsy cache
addCacheControl(headers, cache) ==
  IF Has(headers, "Cache-Control") \/ ~ToBoolean(cache) THEN headers
  ELSE Set(headers, "Cache-Control",
           "private, max-age=" \o NumberToString(cache.num) \o ", must-revalidate")

\* resultToResponse throws (the exception of JSON.stringify)
resultToResponseThrows(r) ==
  /\ r.type \notin {"Response", "string", "buffer"}
  /\ ToBoolean(r)
  /\ StringifyThrows(r)

\* a faulty resultToResponse that adds the caching headers whatever the status
resultToResponseCachingAny(cache, cors, etag, r) ==
  IF r.type = "Response"
  THEN Response(r.response.body,
                addCacheControl(addETag(Spread(cors, r.response.headers),
                                        r.response.body, etag), cache),
                r.response.status)
  ELSE IF r.type \in {"string", "buffer"}
  THEN Response(r.str,
                addCacheControl(addETag(Set(cors, "Content-Type",
                                            "text/plain; charset=utf-8"),
                                        r.str, etag), cache), 200)
  ELSE IF ToBoolean(r)
  THEN Response(JSONStringify(r),
                addCacheControl(addETag(Set(cors, "Content-Type", "application/json"),
                                        JSONStringify(r), etag), cache), 200)
  ELSE Response("", addCacheControl(addETag(cors, "", etag), cache), 204)

\* a faulty resultToResponse that makes the ETag of a JSON document from the
\* result's keys, not from the body
resultToResponseTagsKeys(cache, cors, etag, r) ==
  IF r.type = "Response"
  THEN LET headers == Spread(cors, r.response.headers)
       IN Response(r.response.body,
                   IF r.response.status = 200
                   THEN addCacheControl(addETag(headers, r.response.body, etag), cache)
                   ELSE headers,
                   r.response.status)
  ELSE IF r.type \in {"string", "buffer"}
  THEN LET headers == Set(cors, "Content-Type", "text/plain; charset=utf-8")
       IN Response(r.str, addCacheControl(addETag(headers, r.str, etag), cache), 200)
  ELSE IF ToBoolean(r)
  THEN LET headers == Set(cors, "Content-Type", "application/json")
       IN Response(JSONStringify(r),
                   addCacheControl(addETag(headers, Keys(r.props), etag), cache), 200)
  ELSE Response("", cors, 204)

\* resultToResponse: a Response with the CORS headers under its own, a string
\* or a Buffer as text, another truthy value as JSON, anything else as 204
resultToResponse(cache, cors, etag, r) ==
  IF r.type = "Response"
  THEN LET headers == Spread(cors, r.response.headers)
       IN Response(r.response.body,
                   IF r.response.status = 200
                   THEN addCacheControl(addETag(headers, r.response.body, etag), cache)
                   ELSE headers,
                   r.response.status)
  ELSE IF r.type \in {"string", "buffer"}
  THEN LET headers == Set(cors, "Content-Type", "text/plain; charset=utf-8")
       IN Response(r.str, addCacheControl(addETag(headers, r.str, etag), cache), 200)
  ELSE IF ToBoolean(r)
  THEN LET headers == Set(cors, "Content-Type", "application/json")
           body == JSONStringify(r)
       IN Response(body, addCacheControl(addETag(headers, body, etag), cache), 200)
  ELSE Response("", cors, 204)

-----------------------------------------------------------------------------
(***************************************************************************)
(* HTTP request engine                                                     *)
(***************************************************************************)
NoResponse == [status |-> 0, body |-> ""]
InternalServerError == [status |-> 500, body |-> "Internal Server Error"]
TimedOut == [status |-> 500, body |-> "Timed Out"]
Forbidden == [status |-> 403, body |-> "Forbidden"]

Functions == {"onRequest", "authenticate", "handler", "onResponse", "onError"}

\* the Response a user function throws (told apart by its body)
ThrownResponse(fn) ==
  [status |-> IF fn = "onResponse" THEN 302 ELSE 401, body |-> fn]

\* thrown values: a Response, an Error, or some other value (say a string)
NoError == [kind |-> "none", by |-> "", response |-> NoResponse]
Thrown(kind, fn) ==
  [kind |-> kind, by |-> fn,
   response |-> IF kind = "Response" THEN ThrownResponse(fn) ELSE NoResponse]

\* error instanceof Response
IsResponse(e) == e.kind = "Response"

\* error instanceof Error ? error : new Error(String(error))
AsError(e) == [e EXCEPT !.kind = "Error"]

\* what authenticate may return: nothing, a user without id, a user with an id
NoUser == [present |-> FALSE, id |-> ""]
UserWithoutId == [present |-> TRUE, id |-> ""]
UserWithId == [present |-> TRUE, id |-> "u1"]
AuthenticateReturns == {NoUser, UserWithoutId, UserWithId}

\* user?.id is truthy
HasId(u) == u.present /\ u.id # ""

\* what the handler may return, by name
HandlerResults == {"response", "object", "nothing", "circular"}

\* the value each name stands for
HandlerResult(r) ==
  CASE r = "response" -> ResponseValue(Response("page", NoHeaders, 200))
    [] r = "object"   -> Object(<<Property("a", Number(1))>>)
    [] r = "nothing"  -> Undefined
    [] r = "circular" -> Cyclic

\* JSON.stringify(result) throws for this result
Unserialisable(r) == resultToResponseThrows(HandlerResult(r))

\* status and body of the Response resultToResponse makes of the result (the
\* pipeline does not look at the headers)
StatusAndBody(r) ==
  LET made == resultToResponse(Undefined, NoHeaders, Boolean(TRUE), HandlerResult(r))
  IN [status |-> made.status, body |-> made.body]

NoOutcomes == [fn \in Functions |-> "none"]

\* the request's position and what its user code has seen, as one record
Pipeline ==
  [pc |-> httpPc, calls |-> calls, outcome |-> outcome,
   onResponseArg |-> onResponseArg, onErrorArg |-> onErrorArg, error |-> error,
   response |-> response, user |-> user, storeUser |-> storeUser]

\* the call of a user function starts
Call(p, fn) ==
  [p EXCEPT !.pc = fn, !.calls = Append(@, [ev |-> "call", fn |-> fn])]

\* how a call that threw ended: with a Response, or with an error
HowThrown(kind) == IF kind = "Response" THEN "threwResponse" ELSE "threwError"

\* the call of a user function ends
End(p, fn, how) ==
  [p EXCEPT !.calls = Append(@, [ev |-> "end", fn |-> fn]), !.outcome[fn] = how]

\* runWithMiddleware resolves with the pipeline's response
Resolve(p) == [p EXCEPT !.pc = "done"]

\* a faulty handleOnError that calls onError for a thrown Response too
handleOnErrorOnErrorForAny(p) ==
  IF middleware.onError
  THEN [Call(p, "onError") EXCEPT !.pc = "errOnError", !.onErrorArg = AsError(p.error)]
  ELSE Resolve(p)

\* a faulty handleOnError that gives onError the error of onResponse when it threw
handleOnErrorOnErrorForLatest(p) ==
  IF ~IsResponse(p.error) /\ middleware.onError
  THEN [Call(p, "onError")
          EXCEPT !.pc = "errOnError",
                 !.onErrorArg = IF p.outcome["onResponse"] = "threwError"
                                THEN AsError(Thrown("Error", "onResponse"))
                                ELSE AsError(p.error)]
  ELSE Resolve(p)

\* handleOnError, after its onResponse: call onError for a non-Response error
\* if the middleware has it, then return the response
handleOnErrorOnError(p) ==
  IF ~IsResponse(p.error) /\ middleware.onError
  THEN [Call(p, "onError") EXCEPT !.pc = "errOnError", !.onErrorArg = AsError(p.error)]
  ELSE Resolve(p)

\* a faulty handleOnError that goes to onError without calling onResponse first
handleOnErrorWithoutOnResponse(p, e) ==
  handleOnErrorOnError([p EXCEPT !.error = e,
                                 !.response = IF IsResponse(e) THEN e.response
                                              ELSE InternalServerError])

\* handleOnError: the response is the thrown Response or a 500; call onResponse
\* with it if the middleware has it
handleOnError(p, e) ==
  LET q == [p EXCEPT !.error = e,
                     !.response = IF IsResponse(e) THEN e.response
                                  ELSE InternalServerError]
  IN IF middleware.onResponse
     THEN [Call(q, "onResponse") EXCEPT !.pc = "errOnResponse",
                                        !.onResponseArg = q.response]
     ELSE handleOnErrorOnError(q)

\* handleOnResponse: call onResponse with the response if the middleware has it
handleOnResponse(p, r) ==
  LET q == [p EXCEPT !.response = r]
  IN IF middleware.onResponse
     THEN [Call(q, "onResponse") EXCEPT !.onResponseArg = r]
     ELSE Resolve(q)

\* a faulty gate that only rejects a missing user, not a user without id
afterAuthenticateAnyUser(p, u) ==
  IF middleware.authenticate /\ ~u.present
  THEN handleOnError([p EXCEPT !.user = u], [Thrown("Response", "authenticate")
                                               EXCEPT !.response = Forbidden])
  ELSE Call([p EXCEPT !.user = u, !.storeUser = [set |-> TRUE, user |-> u]], "handler")

\* a faulty runWithMiddleware that invokes the handler without pinning the user
afterAuthenticateUnpinned(p, u) ==
  IF middleware.authenticate /\ ~HasId(u)
  THEN handleOnError([p EXCEPT !.user = u], [Thrown("Response", "authenticate")
                                               EXCEPT !.response = Forbidden])
  ELSE Call([p EXCEPT !.user = u], "handler")

\* runWithMiddleware after authenticate: reject an invalid user with 403, else
\* pin the user to the ambient context and invoke the handler
afterAuthenticate(p, u) ==
  IF middleware.authenticate /\ ~HasId(u)
  THEN handleOnError([p EXCEPT !.user = u], [Thrown("Response", "authenticate")
                                               EXCEPT !.response = Forbidden])
  ELSE Call([p EXCEPT !.user = u, !.storeUser = [set |-> TRUE, user |-> u]], "handler")

\* runWithMiddleware after onRequest: authenticate if the middleware has it
afterOnRequest(p) ==
  IF middleware.authenticate THEN Call(p, "authenticate") ELSE afterAuthenticate(p, NoUser)

\* runWithMiddleware from its start
runWithMiddleware(p) ==
  IF middleware.onRequest THEN Call(p, "onRequest") ELSE afterOnRequest(p)

\* take the pipeline to p
Advance(p) ==
  /\ httpPc' = p.pc
  /\ calls' = p.calls
  /\ outcome' = p.outcome
  /\ onResponseArg' = p.onResponseArg
  /\ onErrorArg' = p.onErrorArg
  /\ error' = p.error
  /\ response' = p.response
  /\ user' = p.user
  /\ storeUser' = p.storeUser

\* take the pipeline to p; when it has resolved, handleRoute's race is settled
\* by it unless the deadline settled it before (finally: clearTimeout, abort)
Continue(p) ==
  /\ Advance(p)
  /\ IF p.pc = "done"
     THEN /\ result' = p.response
          /\ IF returned = NoResponse
             THEN /\ returned' = p.response
                  /\ timer' = "cleared"
                  /\ signalAborted' = TRUE
             ELSE UNCHANGED <<returned, timer, signalAborted>>
     ELSE UNCHANGED <<result, returned, timer, signalAborted>>

HttpInit ==
  /\ middleware \in [Functions \ {"handler"} -> BOOLEAN]
  /\ httpPc = "handleRoute"
  /\ calls = <<>>
  /\ outcome = NoOutcomes
  /\ onResponseArg = NoResponse
  /\ onErrorArg = NoError
  /\ error = NoError
  /\ response = NoResponse
  /\ result = NoResponse
  /\ returned = NoResponse
  /\ timer = "none"
  /\ signalAborted = FALSE
  /\ user = NoUser
  /\ storeUser = [set |-> FALSE, user |-> NoUser]

\* handleRoute: set the deadline timer, read the cookies, open the context and
\* start runWithMiddleware in it
HandleRoute ==
  /\ httpPc = "handleRoute"
  /\ timer' = "set"
  /\ Advance(runWithMiddleware(Pipeline))
  /\ UNCHANGED <<middleware, result, returned, signalAborted>>
  /\ UNCHANGED otherThanHttp

\* a faulty handleHTTPRequest that lets what getCookies throws leave it
HandleRouteCookiesThrowRejects ==
  /\ httpPc = "handleRoute"
  /\ timer' = "set"
  /\ httpPc' = "rejected"
  /\ UNCHANGED <<middleware, calls, outcome, onResponseArg, onErrorArg, error,
                 response, result, returned, signalAborted, user, storeUser>>
  /\ UNCHANGED otherThanHttp

\* handleRoute: getCookies throws before the try block: the timer stays set and
\* handleHTTPRequest answers 500
HandleRouteCookiesThrow ==
  /\ httpPc = "handleRoute"
  /\ timer' = "set"
  /\ httpPc' = "rejected"
  /\ returned' = InternalServerError
  /\ UNCHANGED <<middleware, calls, outcome, onResponseArg, onErrorArg, error,
                 response, result, signalAborted, user, storeUser>>
  /\ UNCHANGED otherThanHttp

\* handleRoute: newLocalStorage() throws inside the try block: finally clears the
\* timer and aborts, and handleHTTPRequest answers 500
HandleRouteContextThrows ==
  /\ httpPc = "handleRoute"
  /\ timer' = "cleared"
  /\ signalAborted' = TRUE
  /\ httpPc' = "rejected"
  /\ returned' = InternalServerError
  /\ UNCHANGED <<middleware, calls, outcome, onResponseArg, onErrorArg, error,
                 response, result, user, storeUser>>
  /\ UNCHANGED otherThanHttp

\* a faulty deadline that aborts the signal but does not settle the race
DeadlineFiresWithoutAnswer ==
  /\ timer = "set"
  /\ timer' = "fired"
  /\ signalAborted' = TRUE
  /\ UNCHANGED <<middleware, httpPc, calls, outcome, onResponseArg, onErrorArg, error,
                 response, result, returned, user, storeUser>>
  /\ UNCHANGED otherThanHttp

\* setTimeout(() => controller.abort(), timeout * 1000) fires: the signal aborts
\* and, when handleRoute still awaits the race, the answer is 500 "Timed Out"
DeadlineFires ==
  /\ timer = "set"
  /\ timer' = "fired"
  /\ signalAborted' = TRUE
  /\ returned' = IF returned = NoResponse /\ httpPc # "rejected" THEN TimedOut ELSE returned
  /\ UNCHANGED <<middleware, httpPc, calls, outcome, onResponseArg, onErrorArg, error,
                 response, result, user, storeUser>>
  /\ UNCHANGED otherThanHttp

\* onRequest returns, or throws a Response or an error
OnRequestSettles ==
  /\ httpPc = "onRequest"
  /\ \/ Continue(afterOnRequest(End(Pipeline, "onRequest", "returned")))
     \/ \E kind \in {"Response", "Error"} :
          Continue(handleOnError(End(Pipeline, "onRequest", HowThrown(kind)),
                                 Thrown(kind, "onRequest")))
  /\ UNCHANGED <<middleware>>
  /\ UNCHANGED otherThanHttp

\* authenticate returns a user (or none), or throws a Response or an error
AuthenticateSettles ==
  /\ httpPc = "authenticate"
  /\ \/ \E u \in AuthenticateReturns :
          Continue(afterAuthenticate(End(Pipeline, "authenticate", "returned"), u))
     \/ \E kind \in {"Response", "Error"} :
          Continue(handleOnError(End(Pipeline, "authenticate", HowThrown(kind)),
                                 Thrown(kind, "authenticate")))
  /\ UNCHANGED <<middleware>>
  /\ UNCHANGED otherThanHttp

\* the handler returns a result, which is made a Response and given to
\* handleOnResponse, or throws a Response, an error or another value
HandlerSettles ==
  /\ httpPc = "handler"
  /\ \/ \E r \in HandlerResults :
          LET p == End(Pipeline, "handler", "returned")
          IN IF Unserialisable(r)
             THEN Continue(handleOnError(p, Thrown("Error", "resultToResponse")))
             ELSE Continue(handleOnResponse(p, StatusAndBody(r)))
     \/ \E kind \in {"Response", "Error", "value"} :
          Continue(handleOnError(End(Pipeline, "handler", HowThrown(kind)),
                                 Thrown(kind, "handler")))
  /\ UNCHANGED <<middleware>>
  /\ UNCHANGED otherThanHttp

\* handleOnResponse: onResponse returns (the response stands), throws a Response
\* (it is returned instead) or throws an error (onError is called, then 500)
OnResponseSettles ==
  /\ httpPc = "onResponse"
  /\ \/ Continue(Resolve(End(Pipeline, "onResponse", "returned")))
     \/ Continue(Resolve([End(Pipeline, "onResponse", "threwResponse")
                            EXCEPT !.response = ThrownResponse("onResponse")]))
     \/ LET p == [End(Pipeline, "onResponse", "threwError")
                    EXCEPT !.response = InternalServerError]
        IN IF middleware.onError
           THEN Continue([Call(p, "onError")
                            EXCEPT !.onErrorArg = AsError(Thrown("Error", "onResponse"))])
           ELSE Continue(Resolve(p))
  /\ UNCHANGED <<middleware>>
  /\ UNCHANGED otherThanHttp

\* handleOnResponse: onError returns or throws (logged): the answer is the 500
OnResponseErrorSettles ==
  /\ httpPc = "onError"
  /\ \E how \in {"returned", "threwError"} :
       Continue(Resolve(End(Pipeline, "onError", how)))
  /\ UNCHANGED <<middleware>>
  /\ UNCHANGED otherThanHttp

\* a faulty handleOnError that keeps its response when onResponse throws a Response
ErrorOnResponseKeepsResponse ==
  /\ httpPc = "errOnResponse"
  /\ \E how \in {"returned", "threwResponse", "threwError"} :
       Continue(handleOnErrorOnError(End(Pipeline, "onResponse", how)))
  /\ UNCHANGED <<middleware>>
  /\ UNCHANGED otherThanHttp

\* handleOnError: onResponse returns, throws a Response (it becomes the
\* response) or throws an error (logged); then onError, for the original error
ErrorOnResponseSettles ==
  /\ httpPc = "errOnResponse"
  /\ \/ Continue(handleOnErrorOnError(End(Pipeline, "onResponse", "returned")))
     \/ Continue(handleOnErrorOnError([End(Pipeline, "onResponse", "threwResponse")
                                         EXCEPT !.response = ThrownResponse("onResponse")]))
     \/ Continue(handleOnErrorOnError(End(Pipeline, "onResponse", "threwError")))
  /\ UNCHANGED <<middleware>>
  /\ UNCHANGED otherThanHttp

\* handleOnError: onError returns or throws (logged): return the response
ErrorOnErrorSettles ==
  /\ httpPc = "errOnError"
  /\ \E how \in {"returned", "threwError"} :
       Continue(Resolve(End(Pipeline, "onError", how)))
  /\ UNCHANGED <<middleware>>
  /\ UNCHANGED otherThanHttp

HttpNext ==
  \/ HandleRoute
  \/ HandleRouteCookiesThrow
  \/ HandleRouteContextThrows
  \/ DeadlineFires
  \/ OnRequestSettles
  \/ AuthenticateSettles
  \/ HandlerSettles
  \/ OnResponseSettles
  \/ OnResponseErrorSettles
  \/ ErrorOnResponseSettles
  \/ ErrorOnErrorSettles

-----------------------------------------------------------------------------
(***************************************************************************)
(* handleHTTPRequest before the pipeline: route lookup, CORS preflight,    *)
(* getHandler and checkRequest                                             *)
(***************************************************************************)
Methods == {"GET", "HEAD", "POST", "DELETE", "OPTIONS"}

\* the content-type header as its tokens in order; empty when there is none
NoContentType == <<>>
ContentTypes ==
  {NoContentType,
   <<"application", "/", "json">>,
   <<"text", "/", "plain", ";", " ", "charset=utf-8">>,
   <<" ", "image", "/", "png", " ", ";", "q=1">>}

\* entries of route.accepts, as tokens; */* is what a route without an accepts
\* configuration has
AnyType == <<"*", "/", "*">>
Accepts == {{AnyType}, {<<"application", "/", "json">>},
            {<<"text", "/", "*">>, <<"image", "/", "png">>}}

RECURSIVE Before(_, _)
\* s.split(separator)[0]
Before(s, separator) ==
  IF Len(s) = 0 \/ Head(s) = separator THEN <<>>
  ELSE <<Head(s)>> \o Before(Tail(s), separator)

RECURSIVE trimStart(_)
trimStart(s) == IF Len(s) > 0 /\ Head(s) = " " THEN trimStart(Tail(s)) ELSE s

RECURSIVE trimEnd(_)
trimEnd(s) ==
  IF Len(s) > 0 /\ s[Len(s)] = " " THEN trimEnd(SubSeq(s, 1, Len(s) - 1)) ELSE s

\* s.trim()
trim(s) == trimEnd(trimStart(s))

\* request.headers.get("content-type")?.split(";")[0]?.trim()
mimeTypeOf(header) == trim(Before(header, ";"))

\* route.methods, a Set in insertion order
RouteMethods == {<<"*">>, <<"GET">>, <<"GET", "POST">>}

\* findRoute: the route, a thrown 404 Response, or another failure
FindRouteOutcomes == {"found", "notFound", "failed"}
NotFound == [status |-> 404, body |-> "Not Found"]
MethodNotAllowed == [status |-> 405, body |-> "Method Not Allowed"]
UnsupportedMediaType == [status |-> 415, body |-> "Unsupported Media Type"]
NoContent == [status |-> 204, body |-> ""]

\* the handlers a route module exports
ModuleExports == {{}, {"get"}, {"default"}, {"post", "del"}}

\* Array.from(methods).join(", ")
RECURSIVE Join(_)
Join(methods) ==
  IF Len(methods) = 0 THEN <<>>
  ELSE IF Len(methods) = 1 THEN methods
  ELSE <<Head(methods), ", ">> \o Join(Tail(methods))

\* getCorsHeaders: undefined without cors, else the three headers
getCorsHeaders(r) ==
  IF ~r.cors THEN NoHeaders
  ELSE [h \in {"Access-Control-Allow-Origin", "Access-Control-Allow-Methods",
               "Access-Control-Allow-Headers"} |->
          CASE h = "Access-Control-Allow-Origin" -> <<"*">>
            [] h = "Access-Control-Allow-Methods" -> Join(r.methods)
            [] h = "Access-Control-Allow-Headers" -> <<"Content-Type, Authorization">>]

\* method.toLowerCase()
toLowerCase(method) ==
  CASE method = "GET" -> "get"
    [] method = "HEAD" -> "head"
    [] method = "POST" -> "post"
    [] method = "DELETE" -> "delete"
    [] method = "OPTIONS" -> "options"

\* getHandler: module[method] ?? del for DELETE ?? get for HEAD ?? default;
\* "" when there is none (405)
getHandler(exported, method) ==
  IF toLowerCase(method) \in exported THEN toLowerCase(method)
  ELSE IF method = "DELETE" /\ "del" \in exported THEN "del"
  ELSE IF method = "HEAD" /\ "get" \in exported THEN "get"
  ELSE IF "default" \in exported THEN "default"
  ELSE ""

\* a faulty checkRequest that lets a request without a content type through
checkRequestOfGiven(req, r) ==
  IF ~("*" \in Range(r.methods) \/ req.method \in Range(r.methods))
  THEN MethodNotAllowed
  ELSE IF req.method \in {"GET", "HEAD"} THEN NoResponse
  ELSE IF AnyType \in r.accepts THEN NoResponse
  ELSE LET mimeType == mimeTypeOf(req.contentType)
       IN IF \/ mimeType = <<>>
             \/ mimeType \in r.accepts
             \/ (Before(mimeType, "/") \o <<"/", "*">>) \in r.accepts
          THEN NoResponse
          ELSE UnsupportedMediaType

\* a faulty checkRequest that looks at the content type before the method
checkRequestOfContentTypeFirst(req, r) ==
  LET mimeType == mimeTypeOf(req.contentType)
  IN IF /\ req.method \notin {"GET", "HEAD"}
        /\ AnyType \notin r.accepts
        /\ ~(/\ mimeType # <<>>
             /\ \/ mimeType \in r.accepts
                \/ (Before(mimeType, "/") \o <<"/", "*">>) \in r.accepts)
     THEN UnsupportedMediaType
     ELSE IF ~("*" \in Range(r.methods) \/ req.method \in Range(r.methods))
     THEN MethodNotAllowed
     ELSE NoResponse

\* checkRequest: the Response it throws, NoResponse when the request passes
checkRequest(req, r) ==
  IF ~("*" \in Range(r.methods) \/ req.method \in Range(r.methods))
  THEN MethodNotAllowed
  ELSE IF req.method \in {"GET", "HEAD"} THEN NoResponse
  ELSE IF AnyType \in r.accepts THEN NoResponse
  ELSE LET mimeType == mimeTypeOf(req.contentType)
       IN IF /\ mimeType # <<>>
             /\ \/ mimeType \in r.accepts
                \/ (Before(mimeType, "/") \o <<"/", "*">>) \in r.accepts
          THEN NoResponse
          ELSE UnsupportedMediaType

\* a faulty preflight test that answers only when the route allows OPTIONS
IsPreflightOfAllowed(req, r) ==
  r.cors /\ req.method = "OPTIONS" /\ checkRequest(req, r) = NoResponse

\* route.cors && request.method === "OPTIONS"
IsPreflight(req, r) == r.cors /\ req.method = "OPTIONS"

RequestInit ==
  /\ request \in [method : Methods, contentType : ContentTypes]
  /\ route \in [found : FindRouteOutcomes, cors : BOOLEAN, methods : RouteMethods,
                accepts : Accepts]
  /\ exports \in ModuleExports
  /\ corsHeaders = NoHeaders
  /\ middleware \in [Functions \ {"handler"} -> BOOLEAN]
  /\ httpPc = "findRoute"
  /\ calls = <<>>
  /\ outcome = NoOutcomes
  /\ onResponseArg = NoResponse
  /\ onErrorArg = NoError
  /\ error = NoError
  /\ response = NoResponse
  /\ result = NoResponse
  /\ returned = NoResponse
  /\ timer = "none"
  /\ signalAborted = FALSE
  /\ user = NoUser
  /\ storeUser = [set |-> FALSE, user |-> NoUser]

\* handleHTTPRequest answers by itself: the pipeline is not entered
Answer(r) ==
  /\ httpPc' = "answered"
  /\ returned' = r

\* findRoute settled; then, in one go: the CORS headers, the preflight answer,
\* getHandler, checkRequest, and the call of handleRoute
FindRouteSettles ==
  /\ httpPc = "findRoute"
  /\ IF route.found = "notFound" THEN Answer(NotFound) /\ UNCHANGED corsHeaders
     ELSE IF route.found = "failed"
     THEN Answer(InternalServerError) /\ UNCHANGED corsHeaders
     ELSE /\ corsHeaders' = getCorsHeaders(route)
          /\ IF IsPreflight(request, route) THEN Answer(NoContent)
             ELSE IF getHandler(exports, request.method) = ""
             THEN Answer(MethodNotAllowed)
             ELSE IF checkRequest(request, route) # NoResponse
             THEN Answer(checkRequest(request, route))
             ELSE httpPc' = "handleRoute" /\ UNCHANGED returned
  /\ UNCHANGED <<request, route, exports>>
  /\ UNCHANGED <<middleware, calls, outcome, onResponseArg, onErrorArg, error,
                 response, result, timer, signalAborted, user, storeUser>>
  /\ UNCHANGED <<qVars, cVars, mVars, uVars, lVars, wVars, sVars>>

RequestNext ==
  \/ FindRouteSettles
  \/ HandleRoute
  \/ HandleRouteCookiesThrow
  \/ HandleRouteContextThrows
  \/ DeadlineFires
  \/ OnRequestSettles
  \/ AuthenticateSettles
  \/ HandlerSettles
  \/ OnResponseSettles
  \/ OnResponseErrorSettles
  \/ ErrorOnResponseSettles
  \/ ErrorOnErrorSettles

-----------------------------------------------------------------------------
(***************************************************************************)
(* From the handler's result to the answer: runWithMiddleware's cache and  *)
(* etag, resultToResponse, addETag, addCacheControl, and the responses     *)
(* handleOnError and handleRoute make themselves.  The route has no        *)
(* middleware here; two requests to it are followed side by side.          *)
(***************************************************************************)
Requests == {1, 2}

\* config.etag and config.cache: absent, a value, or a function of the result
EtagPolicies ==
  {Undefined, Boolean(TRUE), Boolean(FALSE), String("v1"), Function("etagOfKeys")}
CachePolicies ==
  {Undefined, Number(0), Number(60), Number(0 - 5), Function("cacheIfAny")}

\* the functions a config may give, applied to the result:
\*   etagOfKeys: (result) => Object.keys(result).join("")  (for an object)
\*   cacheIfAny: (result) => Object.keys(result).length > 0 ? 60 : 0
Apply(f, r) ==
  CASE f.str = "etagOfKeys" ->
         IF r.type = "object" THEN String(Keys(r.props)) ELSE Boolean(TRUE)
    [] f.str = "cacheIfAny" ->
         IF r.type = "object" /\ Len(r.props) > 0 THEN Number(60) ELSE Number(0)

\* typeof config.cache === "function" ? config.cache(result) : config.cache
cacheOf(c, r) == IF c.cache.type = "function" THEN Apply(c.cache, r) ELSE c.cache

\* typeof config.etag === "function" ? config.etag(result) : config.etag ?? true
etagOf(c, r) ==
  IF c.etag.type = "function" THEN Apply(c.etag, r)
  ELSE IF c.etag.type \in {"undefined", "null"} THEN Boolean(TRUE)
  ELSE c.etag

\* headers a handler may put on its Response
OwnHeaders ==
  {NoHeaders, [h \in {"ETag"} |-> "own-tag"], [h \in {"Cache-Control"} |-> "no-store"]}

\* what a handler may return
Results ==
  {Undefined, Null, Boolean(FALSE), Boolean(TRUE), Number(0), Number(1),
   String(""), String("hi"), Buffer("hi"),
   Object(<<>>), Object(<<Property("a", Number(1))>>),
   Object(<<Property("a", Number(1)), Property("b", Undefined)>>),
   Array(<<Number(1), Undefined>>), Cyclic}
  \cup {ResponseValue(Response("page", h, s)) : h \in OwnHeaders, s \in {200, 404}}

\* what a handler may throw: a Response, or an Error
Throwables ==
  {AnError} \cup {ResponseValue(Response("denied", h, 401)) : h \in OwnHeaders}

\* what the handler of a request does
Handled ==
  [how : {"returns"}, value : Results] \cup [how : {"throws"}, value : Throwables]

\* handleOnError's response (no middleware): the thrown Response, or a 500
errorResponse(e) ==
  IF e.type = "Response" THEN e.response
  ELSE Response("Internal Server Error", NoHeaders, 500)

ResultInit ==
  /\ routeConfig \in [etag : EtagPolicies, cache : CachePolicies]
  /\ request = [method |-> "GET", contentType |-> NoContentType]
  /\ route \in [found : {"found"}, cors : BOOLEAN, methods : {<<"GET", "POST">>},
                accepts : {{AnyType}}]
  /\ exports = {"default"}
  /\ corsHeaders = getCorsHeaders(route)
  /\ handled \in [Requests -> Handled]
  /\ answer = [i \in Requests |-> NoAnswer]

\* runWithMiddleware when the handler returns: the cache and the etag for the
\* result, resultToResponse, and the 500 of handleOnError when that throws
RunWithMiddlewareReturns(i) ==
  /\ answer[i] = NoAnswer
  /\ handled[i].how = "returns"
  /\ LET r == handled[i].value
     IN answer' = [answer EXCEPT ![i] =
          IF resultToResponseThrows(r) THEN errorResponse(AnError)
          ELSE resultToResponse(cacheOf(routeConfig, r), corsHeaders,
                                etagOf(routeConfig, r), r)]
  /\ UNCHANGED <<routeConfig, handled, corsHeaders>>
  /\ UNCHANGED otherThanResult

\* runWithMiddleware when the handler throws: handleOnError's response
RunWithMiddlewareThrows(i) ==
  /\ answer[i] = NoAnswer
  /\ handled[i].how = "throws"
  /\ answer' = [answer EXCEPT ![i] = errorResponse(handled[i].value)]
  /\ UNCHANGED <<routeConfig, handled, corsHeaders>>
  /\ UNCHANGED otherThanResult

\* new Response("Timed Out", { status: 500 })
TimedOutAnswer == Response("Timed Out", NoHeaders, 500)

\* handleRoute when the deadline comes before the handler settles
HandleRouteTimesOut(i) ==
  /\ answer[i] = NoAnswer
  /\ answer' = [answer EXCEPT ![i] = TimedOutAnswer]
  /\ UNCHANGED <<routeConfig, handled, corsHeaders>>
  /\ UNCHANGED otherThanResult

ResultNext ==
  \/ \E i \in Requests : RunWithMiddlewareReturns(i)
  \/ \E i \in Requests : RunWithMiddlewareThrows(i)
  \/ \E i \in Requests : HandleRouteTimesOut(i)

-----------------------------------------------------------------------------
(***************************************************************************)
(* The manifest loader: loadServices, loadQueues, loadRoutes and the       *)
(* functions they validate file names, paths and configs with.  A file     *)
(* name, a URL or a path is the sequence of its tokens: names, and the     *)
(* characters that matter ("/", ".", "[", "]", "...", ":", "*").           *)
(***************************************************************************)
Marks == {"/", ".", "...", "[", "]", ":", "*", ".js", ".ts", ".fifo", " ", ""}

\* the token is made of letters, digits, dashes and underscores only
IsWord(t) == t \notin Marks

\* what a function gives: a value, or the error it throws
Ok(v) == [ok |-> TRUE, value |-> v, error |-> ""]
Throw(text) == [ok |-> FALSE, value |-> <<>>, error |-> text]

RECURSIVE SplitBy(_, _)
\* s.split(separator), as a sequence of parts
SplitBy(s, separator) ==
  LET first == Before(s, separator)
  IN IF Len(first) = Len(s) THEN <<first>>
     ELSE <<first>> \o SplitBy(SubSeq(s, Len(first) + 2, Len(s)), separator)

RECURSIVE JoinBy(_, _)
\* parts.join(separator)
JoinBy(parts, separator) ==
  IF Len(parts) = 0 THEN <<>>
  ELSE IF Len(parts) = 1 THEN parts[1]
  ELSE parts[1] \o <<separator>> \o JoinBy(Tail(parts), separator)

\* the positions of "/" in s
Slashes(s) == {k \in 1..Len(s) : s[k] = "/"}
LastSlash(s) == CHOOSE k \in Slashes(s) : \A j \in Slashes(s) : j <= k

\* path.extname(filename): the extension, when the name ends with one
extname(filename) ==
  IF Len(filename) > 0 /\ Last(filename) \in {".js", ".ts"} THEN <<Last(filename)>>
  ELSE <<>>

\* path.basename(filename, path.extname(filename))
basename(filename) ==
  LET name == IF Slashes(filename) = {} THEN filename
              ELSE SubSeq(filename, LastSlash(filename) + 1, Len(filename))
  IN SubSeq(name, 1, Len(name) - Len(extname(filename)))

\* path.dirname(filename): "." for a name without a directory
dirname(filename) ==
  IF Slashes(filename) = {} THEN <<".">>
  ELSE SubSeq(filename, 1, LastSlash(filename) - 1)

\* part.replace(/^\[\.{3}(.*)\]$/, ":$1*").replace(/^\[(.*)\]$/, ":$1")
renamePart(part) ==
  IF Len(part) >= 3 /\ part[1] = "[" /\ part[2] = "..." /\ Last(part) = "]"
  THEN <<":">> \o SubSeq(part, 3, Len(part) - 1) \o <<"*">>
  ELSE IF Len(part) >= 2 /\ part[1] = "[" /\ Last(part) = "]"
  THEN <<":">> \o SubSeq(part, 2, Len(part) - 1)
  ELSE part

\* renamePathProperties: foo/[bar] -> foo/:bar, foo/[...bar] -> foo/:bar*
renamePathProperties(filename) ==
  LET parts == SplitBy(filename, "/")
  IN JoinBy([k \in 1..Len(parts) |-> renamePart(parts[k])], "/")

RECURSIVE Squeeze(_)
\* s.replace(/\/+/g, "/")
Squeeze(s) ==
  IF Len(s) < 2 THEN s
  ELSE IF s[1] = "/" /\ s[2] = "/" THEN Squeeze(Tail(s))
  ELSE <<s[1]>> \o Squeeze(Tail(s))

\* expandNestedRoutes: filename.replace(/\./g, "/").replace(/\/+/g, "/")
expandNestedRoutes(filename) ==
  Squeeze([k \in 1..Len(filename) |->
             IF filename[k] \in {".", "..."} THEN "/" ELSE filename[k]])

\* the keys pathToRegexp(path, keys) finds: for each ":" its name (none when no
\* name follows) and its modifier
pathKeys(path) ==
  LET at == {k \in 1..Len(path) : path[k] = ":"}
      Key(k) ==
        [name |-> IF k < Len(path) /\ IsWord(path[k + 1]) THEN path[k + 1] ELSE "",
         modifier |-> IF k + 1 < Len(path) /\ IsWord(path[k + 1]) /\ path[k + 2] = "*"
                      THEN "*" ELSE ""]
      RECURSIVE From(_)
      From(k) ==
        IF k > Len(path) THEN <<>>
        ELSE IF k \in at THEN <<Key(k)>> \o From(k + 1)
        ELSE From(k + 1)
  IN From(1)

\* isValidPathPart: /^([a-z0-9_-]+)|(:[a-z0-9_-]+\*?)$/i.test(part), that is, the
\* part begins with a name, or ends with a parameter
isValidPathPart(part) ==
  \/ Len(part) >= 1 /\ IsWord(part[1])
  \/ /\ Len(part) >= 2
     /\ part[Len(part) - 1] = ":" /\ IsWord(part[Len(part)])
  \/ /\ Len(part) >= 3
     /\ part[Len(part) - 2] = ":" /\ IsWord(part[Len(part) - 1]) /\ part[Len(part)] = "*"

\* verifyPathParameters: the error it throws, "" when it throws none
verifyPathParameters(path) ==
  LET keys == pathKeys(path)
      parts == SplitBy(path, "/")
  IN IF \E k \in 1..Len(keys) : keys[k].name = ""
     THEN "Missing parameter name"
     ELSE IF Cardinality({keys[k].name : k \in 1..Len(keys)}) < Len(keys)
     THEN "Found two parameters with the same name"
     ELSE IF \E k \in 1..Len(keys) : keys[k].modifier = "*" /\ k # Len(keys)
     THEN "The catch-all parameter can only come at the end of the path"
     ELSE IF ~(\A k \in 1..Len(parts) : isValidPathPart(parts[k]))
     THEN "Path parts may only be alphanumeric, dash, underscore, or dot"
     ELSE ""

\* an isValidPathPart whose pattern is anchored at both ends
isValidPathPartWhole(part) ==
  \/ Len(part) = 1 /\ IsWord(part[1])
  \/ Len(part) = 2 /\ part[1] = ":" /\ IsWord(part[2])
  \/ Len(part) = 3 /\ part[1] = ":" /\ IsWord(part[2]) /\ part[3] = "*"

\* the path pathFromFilename derives, before it is verified
derivedPath(filename) ==
  LET directory == dirname(filename)
      withoutIndex == IF basename(filename) = <<"index">> THEN directory
                      ELSE directory \o <<"/">> \o basename(filename)
  IN expandNestedRoutes(renamePathProperties(withoutIndex))

\* a pathFromFilename that verifies nothing
pathFromFilenameUnverified(filename) == Ok(derivedPath(filename))

\* pathFromFilename: foo/[bar]/index.js -> foo/:bar
pathFromFilename(filename) ==
  LET expanded == derivedPath(filename)
  IN IF verifyPathParameters(expanded) # "" THEN Throw(verifyPathParameters(expanded))
     ELSE Ok(expanded)

RECURSIVE signatureOf(_)
\* path.replace(/:(.*?)(\/|$)/g, ":$2"): what follows a ":" is dropped, up to
\* the next "/" or the end
signatureOf(path) ==
  IF Len(path) = 0 THEN <<>>
  ELSE IF Head(path) = ":"
  THEN LET rest == Tail(path)
           name == Before(rest, "/")
       IN <<":">> \o signatureOf(SubSeq(rest, Len(name) + 1, Len(rest)))
  ELSE <<Head(path)>> \o signatureOf(Tail(path))

\* the limits loadRoutes and loadQueues give getTimeout
routeTimeout == [max |-> 30, default |-> 30]
queueTimeout == [max |-> 500, default |-> 30]

\* config.timeout: absent, a number (NaN is one), or a value of another type
NoTimeout == [type |-> "undefined", num |-> 0, nan |-> FALSE]
Seconds(n) == [type |-> "number", num |-> n, nan |-> FALSE]
NaN == [type |-> "number", num |-> 0, nan |-> TRUE]
TimeoutText == [type |-> "string", num |-> 0, nan |-> FALSE]

\* a < n and a > n for a number a: both false for NaN
Below(a, n) == ~a.nan /\ a.num < n
Above(a, n) == ~a.nan /\ a.num > n

\* getTimeout of the loader: the default for no timeout, an error for a value
\* that is no number, below 1 or above the maximum, else the value
loaderTimeout(timeout, limits) ==
  IF timeout.type \in {"undefined", "null"} THEN Ok(Seconds(limits.default))
  ELSE IF timeout.type # "number" THEN Throw("config.timeout must be a number (seconds)")
  ELSE IF Below(timeout, 1) THEN Throw("config.timeout must be at least 1 second")
  ELSE IF Above(timeout, limits.max)
  THEN Throw("config.timeout cannot be more than max seconds")
  ELSE Ok(timeout)

\* config.accepts as an array of types; <<>> when the config has none
NoAccepts == <<>>

\* /^[a-z]+\/([a-z]+|\*)$/i.test(accepts)
IsMimeType(type) ==
  /\ Len(type) = 3
  /\ IsWord(type[1]) /\ type[2] = "/" /\ (IsWord(type[3]) \/ type[3] = "*")

\* checkContentType throws for a config.accepts with an entry that is no type
checkContentTypeThrows(accepts) ==
  accepts # NoAccepts /\ \E k \in 1..Len(accepts) : ~IsMimeType(accepts[k])

\* the function checkContentType returns, applied to a type: true without
\* config.accepts, else the type is listed itself or its family as type/*
checkContentType(accepts, type) ==
  IF accepts = NoAccepts THEN TRUE
  ELSE LET exact == {accepts[k] : k \in {j \in 1..Len(accepts) : Last(accepts[j]) # "*"}}
           primary == {Before(accepts[k], "/") :
                         k \in {j \in 1..Len(accepts) : Last(accepts[j]) = "*"}}
       IN type \in exact \/ Before(type, "/") \in primary

\* queueNameFromFilename: queues/foo.fifo.js => foo.fifo
queueNameFromFilename(filename) ==
  LET name == basename(filename)
  IN IF \/ Len(name) = 1 /\ IsWord(name[1])
        \/ Len(name) = 2 /\ IsWord(name[1]) /\ name[2] = ".fifo"
     THEN Ok(name)
     ELSE Throw("Queue name must be alphanumeric, dash, or underscore, and optionally followed by '.fifo'")

\* config.url, absent
NoUrl == <<>>

\* getQueuePath: null without config.url; an error for a relative URL and for
\* a FIFO queue without a group parameter; else the URL in colon form
\* getQueuePath that asks nothing of a FIFO queue's url
getQueuePathOfAny(url, isFifo) ==
  IF url = NoUrl THEN Ok(NoUrl)
  ELSE IF Head(url) # "/"
  THEN Throw("config.url is a relative URL and must start with /")
  ELSE Ok(renamePathProperties(url))

getQueuePath(url, isFifo) ==
  IF url = NoUrl THEN Ok(NoUrl)
  ELSE IF Head(url) # "/"
  THEN Throw("config.url is a relative URL and must start with /")
  ELSE LET path == renamePathProperties(url)
           keys == pathKeys(path)
       IN IF \E k \in 1..Len(keys) : keys[k].name = ""
          THEN Throw("Missing parameter name")
          ELSE IF isFifo /\ ~(\E k \in 1..Len(keys) : keys[k].name = "group")
          THEN Throw("FIFO queue must have a :group parameter in the URL, and optionally a :dedupe parameter")
          ELSE Ok(path)

\* queue.path.replace(/^\/?(.*?)\/?$/g, "$1")
stripSlashes(path) ==
  LET from == IF Len(path) > 0 /\ Head(path) = "/" THEN 2 ELSE 1
      to == IF Len(path) >= from /\ Last(path) = "/" THEN Len(path) - 1 ELSE Len(path)
  IN SubSeq(path, from, to)

\* a file of the project: its name and the config its module exports
File(filename, timeout, accepts, url) ==
  [filename |-> filename, timeout |-> timeout, accepts |-> accepts, url |-> url]

JSON == <<<<"application", "/", "json">>>>

\* files under api/
ApiFiles ==
  {File(<<"api", "/", "a", "/", "[", "x", "]", ".js">>, NoTimeout, NoAccepts, NoUrl),
   File(<<"api", "/", "a", "/", "[", "y", "]", ".ts">>, Seconds(30), JSON, NoUrl),
   File(<<"api", "/", "a", "/", "b", ".js">>, Seconds(1), NoAccepts, NoUrl),
   File(<<"api", "/", "a", ".", "b", ".js">>, NoTimeout, NoAccepts, NoUrl),
   File(<<"api", "/", "a", "/", "[", "...", "rest", "]", ".js">>, NaN, NoAccepts, NoUrl),
   File(<<"api", "/", "c", "/", "index", ".js">>, Seconds(31), NoAccepts, NoUrl),
   File(<<"api", "/", "c", "/", "[", "x", "]", "/", "[", "x", "]", ".js">>,
        NoTimeout, NoAccepts, NoUrl),
   File(<<"api", "/", "c", "/", "d", ".js">>, NoTimeout, <<<<"json">>>>, NoUrl),
   File(<<"api", "/", "a", "/", " ", "b", ".js">>, NoTimeout, NoAccepts, NoUrl),
   File(<<"api", "/", "a", "/", "b", " ", "c", ".js">>, NoTimeout, NoAccepts, NoUrl),
   File(<<"api", "/", "[", "...", "rest", "]", "/", "[", "x", "]", ".js">>,
        NoTimeout, NoAccepts, NoUrl)}

\* files under queues/
QueueFiles ==
  {File(<<"queues", "/", "jobs", ".js">>, NoTimeout, NoAccepts,
        <<"/", "a", "/", ":", "x">>),
   File(<<"queues", "/", "jobs", ".ts">>, Seconds(500), JSON,
        <<"/", "a", "/", ":", "id">>),
   File(<<"queues", "/", "mail", ".js">>, Seconds(0), NoAccepts, NoUrl),
   File(<<"queues", "/", "mail", ".ts">>, NaN, NoAccepts,
        <<"/", "a", "/", "[", "group", "]", "/">>),
   File(<<"queues", "/", "work", ".js">>, NoTimeout, NoAccepts, NoUrl),
   File(<<"queues", "/", "jobs", ".fifo", ".js">>, Seconds(501), NoAccepts,
        <<"/", "q", "/", ":", "group">>),
   File(<<"queues", "/", "jobs", ".fifo", ".ts">>, NoTimeout, NoAccepts,
        <<"/", "q", "/", ":", "id">>),
   File(<<"queues", "/", "mail", ".fifo", ".js">>, NoTimeout, <<<<"text", "/", "*">>>>,
        <<"/", "q", "/", "[", "group", "]", "/", ":", "dedupe">>),
   File(<<"queues", "/", "mail", ".fifo", ".ts">>, TimeoutText, NoAccepts,
        <<"q", "/", ":", "group">>)}

\* the sequences without repetition of at most n members of s
RECURSIVE Sequences(_, _)
Sequences(s, n) ==
  IF n = 0 THEN {<<>>}
  ELSE LET shorter == Sequences(s, n - 1)
       IN shorter \cup {Append(q, x) : q \in shorter, x \in s}

Distinct(q) == \A j, k \in 1..Len(q) : j # k => q[j] # q[k]

NoServices == [queues |-> <<>>, routes |-> <<>>, returned |-> FALSE]
NoLoadError == [filename |-> <<>>, text |-> ""]

LoaderInit ==
  /\ project \in [api : {q \in Sequences(ApiFiles, MaxFiles) : Distinct(q)},
                  queues : {q \in Sequences(QueueFiles, MaxFiles) : Distinct(q)}]
  /\ loadPc = "loadQueues"
  /\ position = 1
  /\ queues = <<>>
  /\ routes = <<>>
  /\ dupes = {}
  /\ services = NoServices
  /\ loadError = NoLoadError

\* map.set(key, value) on a map kept as its entries in insertion order
MapSet(map, key, value) ==
  IF \E k \in 1..Len(map) : map[k].key = key
  THEN [k \in 1..Len(map) |-> IF map[k].key = key THEN [key |-> key, value |-> value]
                              ELSE map[k]]
  ELSE Append(map, [key |-> key, value |-> value])

\* catch (error) { throw new Error(`Error in "${filename}": ${error}`) }
Fail(filename, text) ==
  /\ loadPc' = "failed"
  /\ loadError' = [filename |-> filename, text |-> text]
  /\ UNCHANGED <<position, queues, routes, dupes, services>>

\* loadQueues, one turn of its loop: the queue of the next file, or its error
LoadQueue ==
  /\ loadPc = "loadQueues"
  /\ position <= Len(project.queues)
  /\ LET file == project.queues[position]
         name == queueNameFromFilename(file.filename)
         isFifo == Last(name.value) = ".fifo"
         path == getQueuePath(file.url, isFifo)
         timeout == loaderTimeout(file.timeout, queueTimeout)
     IN IF ~name.ok THEN Fail(file.filename, name.error)
        ELSE IF checkContentTypeThrows(file.accepts)
        THEN Fail(file.filename, "config.accepts lists acceptable MIME types")
        ELSE IF ~path.ok THEN Fail(file.filename, path.error)
        ELSE IF ~timeout.ok THEN Fail(file.filename, timeout.error)
        ELSE /\ queues' = MapSet(queues, name.value,
                                 [accepts |-> file.accepts, filename |-> file.filename,
                                  isFifo |-> isFifo, path |-> path.value,
                                  queueName |-> name.value,
                                  timeout |-> timeout.value])
             /\ position' = position + 1
             /\ UNCHANGED <<loadPc, routes, dupes, services, loadError>>
  /\ UNCHANGED project
  /\ UNCHANGED otherThanLoader

\* loadQueues returns its map; loadRoutes starts
LoadQueuesReturns ==
  /\ loadPc = "loadQueues"
  /\ position > Len(project.queues)
  /\ loadPc' = "loadRoutes"
  /\ position' = 1
  /\ UNCHANGED <<project, queues, routes, dupes, services, loadError>>
  /\ UNCHANGED otherThanLoader

\* loadRoutes, one turn of its first loop: the route of the next file under
\* api/, or its error
LoadRoute ==
  /\ loadPc = "loadRoutes"
  /\ position <= Len(project.api)
  /\ LET file == project.api[position]
         path == pathFromFilename(SubSeq(file.filename, 3, Len(file.filename)))
         signature == signatureOf(path.value)
         timeout == loaderTimeout(file.timeout, routeTimeout)
     IN IF ~path.ok THEN Fail(file.filename, path.error)
        ELSE IF signature \in dupes
        THEN Fail(file.filename, "An identical route already exists, maybe with different parameter names")
        ELSE IF checkContentTypeThrows(file.accepts)
        THEN Fail(file.filename, "config.accepts lists acceptable MIME types")
        ELSE IF ~timeout.ok THEN Fail(file.filename, timeout.error)
        ELSE /\ dupes' = dupes \cup {signature}
             /\ routes' = MapSet(routes, path.value,
                                 [accepts |-> file.accepts, filename |-> file.filename,
                                  queue |-> <<>>, timeout |-> timeout.value])
             /\ position' = position + 1
             /\ UNCHANGED <<loadPc, queues, services, loadError>>
  /\ UNCHANGED project
  /\ UNCHANGED otherThanLoader

\* loadRoutes: the first loop is over, the loop over the queues starts
LoadRoutesOfQueues ==
  /\ loadPc = "loadRoutes"
  /\ position > Len(project.api)
  /\ loadPc' = "queueRoutes"
  /\ position' = 1
  /\ UNCHANGED <<project, queues, routes, dupes, services, loadError>>
  /\ UNCHANGED otherThanLoader

\* loadRoutes, one turn of its second loop: the route of the next queue that
\* has a path, or its error
LoadQueueRoute ==
  /\ loadPc = "queueRoutes"
  /\ position <= Len(queues)
  /\ LET queue == queues[position].value
         path == renamePathProperties(stripSlashes(queue.path))
         signature == signatureOf(path)
     IN IF queue.path = NoUrl
        THEN /\ position' = position + 1
             /\ UNCHANGED <<loadPc, queues, routes, dupes, services, loadError>>
        ELSE IF verifyPathParameters(path) # ""
        THEN Fail(queue.filename, verifyPathParameters(path))
        ELSE IF signature \in dupes THEN Fail(queue.filename, "duplicate route exists")
        ELSE /\ dupes' = dupes \cup {signature}
             /\ routes' = MapSet(routes, path,
                                 [accepts |-> queue.accepts, filename |-> queue.filename,
                                  queue |-> queue.queueName, timeout |-> queue.timeout])
             /\ position' = position + 1
             /\ UNCHANGED <<loadPc, queues, services, loadError>>
  /\ UNCHANGED project
  /\ UNCHANGED otherThanLoader

\* loadRoutes returns its map and loadServices the table of both
LoadServicesReturns ==
  /\ loadPc = "queueRoutes"
  /\ position > Len(queues)
  /\ loadPc' = "loaded"
  /\ services' = [queues |-> queues, routes |-> routes, returned |-> TRUE]
  /\ UNCHANGED <<project, position, queues, routes, dupes, loadError>>
  /\ UNCHANGED otherThanLoader

LoaderNext ==
  \/ LoadQueue
  \/ LoadQueuesReturns
  \/ LoadRoute
  \/ LoadRoutesOfQueues
  \/ LoadQueueRoute
  \/ LoadServicesReturns

-----------------------------------------------------------------------------
(***************************************************************************)
(* Paths and URLs: the matcher of a route and url.for                      *)
(* A path is the sequence of its names and marks, as a filename is.        *)
(***************************************************************************)

\* the letters of a name in lower case
lower(t) == IF t = "A" THEN "a" ELSE IF t = "B" THEN "b" ELSE t

\* a parameter of a match: its name, the segments it took, and whether it
\* takes many
Param(name, segments, many) == [name |-> name, segments |-> segments, many |-> many]

\* the options of path-to-regexp and their defaults
Defaults == [strict |-> FALSE, sensitive |-> FALSE]
Strict == [strict |-> TRUE, sensitive |-> TRUE]

\* the parts of a path matched against the segments of a string: a name takes
\* the segment that is the name, a parameter one segment that is not empty, a
\* :name* the segments left, none of them empty
RECURSIVE MatchParts(_, _, _)
MatchParts(parts, segments, options) ==
  IF Len(parts) = 0
  THEN IF Len(segments) = 0 THEN Ok(<<>>) ELSE Throw("no match")
  ELSE LET part == Head(parts)
       IN IF Len(part) > 0 /\ part[1] = ":" /\ Last(part) = "*"
          THEN IF Len(parts) = 1 /\ \A k \in 1..Len(segments) : Len(segments[k]) > 0
               THEN Ok(IF Len(segments) = 0 THEN <<>>
                       ELSE <<Param(part[2], segments, TRUE)>>)
               ELSE Throw("no match")
          ELSE IF Len(segments) = 0 THEN Throw("no match")
          ELSE LET rest == MatchParts(Tail(parts), Tail(segments), options)
                   segment == Head(segments)
               IN IF Len(part) > 0 /\ part[1] = ":"
                  THEN IF Len(segment) > 0 /\ rest.ok
                       THEN Ok(<<Param(part[2], <<segment>>, FALSE)>> \o rest.value)
                       ELSE Throw("no match")
                  ELSE IF rest.ok /\ Len(segment) = Len(part)
                            /\ \A k \in 1..Len(part) :
                                 IF options.sensitive THEN segment[k] = part[k]
                                 ELSE lower(segment[k]) = lower(part[k])
                  THEN rest
                  ELSE Throw("no match")

\* match(path, options)(string) of path-to-regexp: without strict, one "/"
\* at the end of the string is let through
matchWith(path, string, options) ==
  LET segments == SplitBy(string, "/")
      given == IF ~options.strict /\ Len(segments) > 1 /\ Last(segments) = <<>>
               THEN SubSeq(segments, 1, Len(segments) - 1)
               ELSE segments
  IN MatchParts(SplitBy(path, "/"), given, options)

\* route.match, made by match(path) in loadRoutes
match(path, string) == matchWith(path, string, Defaults)

\* new URL(path, "relative:/").pathname for a path of names and marks: the
\* path from the root
URLPathname(path) == IF Len(path) > 0 /\ Head(path) = "/" THEN path ELSE <<"/">> \o path

\* parseURL of a path or of relative:path
parseURL(pathOrUrl) == URLPathname(pathOrUrl)

\* a replaceBracket that leaves the brackets
replaceBracketNever(path) == path

\* replaceBracket: [name] -> :name and [...name] -> :name*, wherever it stands
RECURSIVE replaceBracket(_)
replaceBracket(path) ==
  IF Len(path) = 0 THEN <<>>
  ELSE IF Len(path) >= 4 /\ path[1] = "[" /\ path[2] = "..." /\ path[4] = "]"
  THEN <<":", path[3], "*">> \o replaceBracket(SubSeq(path, 5, Len(path)))
  ELSE IF Len(path) >= 3 /\ path[1] = "[" /\ path[3] = "]"
  THEN <<":", path[2]>> \o replaceBracket(SubSeq(path, 4, Len(path)))
  ELSE <<Head(path)>> \o replaceBracket(Tail(path))

\* compile(path)(params) of path-to-regexp: each parameter replaced by its
\* value, a :name* by its segments or, without a value, left out with its "/"
RECURSIVE CompileParts(_, _)
CompileParts(parts, params) ==
  IF Len(parts) = 0 THEN Ok(<<>>)
  ELSE LET part == Head(parts)
           rest == CompileParts(Tail(parts), params)
           given == {k \in 1..Len(params) : Len(part) > 1 /\ params[k].name = part[2]}
           value == params[CHOOSE k \in given : TRUE]
       IN IF ~rest.ok THEN rest
          ELSE IF Len(part) = 0 \/ part[1] # ":" THEN Ok(<<part>> \o rest.value)
          ELSE IF given = {}
          THEN IF Last(part) = "*" THEN rest
               ELSE Throw("TypeError: Expected parameter to be a string")
          ELSE IF value.many /\ Last(part) # "*"
          THEN Throw("TypeError: Expected parameter to not repeat")
          ELSE Ok(value.segments \o rest.value)
compile(path, params) ==
  LET parts == CompileParts(SplitBy(path, "/"), params)
  IN IF parts.ok THEN Ok(JoinBy(parts.value, "/")) ELSE parts

\* url.for(pathOrUrl).relative(params): the constructor of relative: and the
\* pathname, applied to the parameters
relative(pathOrUrl, params) ==
  LET normalized == replaceBracket(parseURL(parseURL(pathOrUrl)))
      compiled == compile(normalized, params)
  IN IF compiled.ok THEN Ok(URLPathname(compiled.value)) ELSE compiled

\* files under api/ by their names under it, and the templates that name the
\* route of a file: its path in the manifest and its filename without the
\* extension, with or without the "/" before it
RouteFiles ==
  {<<"a", "/", "[", "x", "]", ".js">>,
   <<"a", "/", "[", "...", "rest", "]", ".js">>,
   <<"a", "/", "b", ".js">>,
   <<"[", "x", "]", "/", "[", "y", "]", ".ts">>}
TemplatesOf(filename) ==
  LET forms == {pathFromFilename(filename).value, SubSeq(filename, 1, Len(filename) - 1)}
  IN forms \cup {<<"/">> \o t : t \in forms}

\* the segments of incoming pathnames
SegmentNames == {"a", "A", "b", "1"}
Pathnames ==
  LET paths == {JoinBy([k \in 1..Len(q) |-> <<q[k]>>], "/") :
                  q \in Sequences(SegmentNames, MaxSegments)}
  IN {<<"/">> \o p : p \in paths} \cup {<<"/">> \o p \o <<"/">> : p \in paths}

NoMatch == Throw("")

UrlInit ==
  /\ \E filename \in RouteFiles :
       /\ routePath = pathFromFilename(filename).value
       /\ written \in TemplatesOf(filename)
  /\ pathname \in Pathnames
  /\ urlPc = "incoming"
  /\ matched = NoMatch
  /\ href = NoMatch

\* findRoute: the route's matcher on the pathname without its first "/"
FindRoute ==
  /\ urlPc = "incoming"
  /\ matched' = match(routePath, Tail(pathname))
  /\ urlPc' = IF matched'.ok THEN "matched" ELSE "missed"
  /\ UNCHANGED <<routePath, written, pathname, href>>
  /\ UNCHANGED otherThanUrl

\* the handler of the route builds the URL of the parameters it was given
UrlFor ==
  /\ urlPc = "matched"
  /\ href' = relative(written, matched.value)
  /\ urlPc' = "built"
  /\ UNCHANGED <<routePath, written, pathname, matched>>
  /\ UNCHANGED otherThanUrl

UrlNext ==
  \/ FindRoute
  \/ UrlFor

-----------------------------------------------------------------------------
(***************************************************************************)
(* WebSocket events: handleWebSocketRequest                                *)
(* The connection store, authenticateWebSocket and handleUserOffline are   *)
(* not part of the sources at hand; they are as the specification has      *)
(* them: bind(connectionId, userId), unbind(connectionId) giving           *)
(* {wentOffline, userId}, authenticate run on the upgrade request, and     *)
(* onOffline(userId) called once.                                          *)
(***************************************************************************)

ConnectionIds == 1..MaxConnections
UserIds == {"u1", "u2"}
\* no user id: the connection of nobody
NoUserId == ""

\* what authenticateWebSocket may throw: Responses with a status and body, one
\* of them without a status, and an error
ThrownByAuthenticate ==
  {[isResponse |-> TRUE, hasStatus |-> TRUE, status |-> 401, body |-> "Unauthorized"],
   [isResponse |-> TRUE, hasStatus |-> TRUE, status |-> 204, body |-> ""],
   [isResponse |-> TRUE, hasStatus |-> FALSE, status |-> 0, body |-> "No"],
   [isResponse |-> FALSE, hasStatus |-> FALSE, status |-> 0, body |-> "TypeError"]}

NothingThrown == [isResponse |-> FALSE, hasStatus |-> FALSE, status |-> 0, body |-> ""]

\* the answer to the host
APIGatewayResponse(statusCode, body) == [statusCode |-> statusCode, body |-> body]
NotAnswered == APIGatewayResponse(0, "")

SocketEvent(eventType, connectionId) ==
  [eventType |-> eventType, connectionId |-> connectionId,
   pc |-> IF eventType = "CONNECT" THEN "authenticate" ELSE "onDisconnected",
   threw |-> FALSE, thrown |-> NothingThrown,
   wentOffline |-> FALSE, userId |-> NoUserId,
   answer |-> NotAnswered]

\* the connections of a user in the store
ConnectionsOf(userId) == {c \in DOMAIN connections : connections[c] = userId}

\* bind(connectionId, userId)
Bind(connectionId, userId) ==
  [c \in DOMAIN connections \cup {connectionId} |->
     IF c = connectionId THEN userId ELSE connections[c]]

\* unbind(connectionId): the store without the entry, and whether that was
\* the last connection of its user
Unbind(connectionId) ==
  [c \in DOMAIN connections \ {connectionId} |-> connections[c]]
onDisconnected(connectionId) ==
  IF connectionId \in DOMAIN connections
  THEN [wentOffline |-> ConnectionsOf(connections[connectionId]) = {connectionId},
        userId |-> connections[connectionId]]
  ELSE [wentOffline |-> FALSE, userId |-> NoUserId]

\* a catch block that accepts whatever was thrown
authenticateCatchAccepts(thrown) == APIGatewayResponse(204, "")

\* the catch block of authenticate: the status and body of a thrown Response,
\* 403 for a status that is null or undefined, else 500
authenticateCatch(thrown) ==
  IF thrown.isResponse
  THEN APIGatewayResponse(IF thrown.hasStatus THEN thrown.status ELSE 403, thrown.body)
  ELSE APIGatewayResponse(500, "Internal Server Error")

\* a disconnect that asks nothing of what the store gave
calledOfflineAlways(gone) == TRUE

\* if (wentOffline && userId)
calledOffline(gone) == gone.wentOffline /\ gone.userId # NoUserId

Connected(c) == \E k \in 1..Len(socketEvents) :
  socketEvents[k].eventType = "CONNECT" /\ socketEvents[k].connectionId = c
Accepted(c) == \E k \in 1..Len(socketEvents) :
  /\ socketEvents[k].eventType = "CONNECT" /\ socketEvents[k].connectionId = c
  /\ socketEvents[k].pc = "returned" /\ ~socketEvents[k].threw
Disconnected(c) == \E k \in 1..Len(socketEvents) :
  socketEvents[k].eventType = "DISCONNECT" /\ socketEvents[k].connectionId = c

SocketInit ==
  /\ connections = <<>>
  /\ socketEvents = <<>>
  /\ onOfflineLog = <<>>

\* the host gives an event: the connect of a new connection (the ids in the
\* order the host makes them), or the disconnect of a connection it accepted
HandleWebSocketRequest ==
  /\ \E c \in ConnectionIds :
       \/ /\ ~Connected(c) /\ \A b \in 1..(c - 1) : Connected(b)
          /\ socketEvents' = Append(socketEvents, SocketEvent("CONNECT", c))
       \/ /\ Accepted(c) /\ ~Disconnected(c)
          /\ socketEvents' = Append(socketEvents, SocketEvent("DISCONNECT", c))
  /\ UNCHANGED <<connections, onOfflineLog>>
  /\ UNCHANGED otherThanSocket

\* authenticateWebSocket resolves: the connection is bound to the user that
\* authenticate gave, if any, and the event is answered 204
AuthenticateWebSocketResolves ==
  /\ \E k \in 1..Len(socketEvents), userId \in UserIds \cup {NoUserId} :
       /\ socketEvents[k].pc = "authenticate"
       /\ connections' = IF userId = NoUserId THEN connections
                         ELSE Bind(socketEvents[k].connectionId, userId)
       /\ socketEvents' = [socketEvents EXCEPT ![k].pc = "returned",
                                               ![k].userId = userId,
                                               ![k].answer = APIGatewayResponse(204, "")]
  /\ UNCHANGED onOfflineLog
  /\ UNCHANGED otherThanSocket

\* authenticateWebSocket throws and the catch block answers
AuthenticateWebSocketThrows ==
  /\ \E k \in 1..Len(socketEvents), thrown \in ThrownByAuthenticate :
       /\ socketEvents[k].pc = "authenticate"
       /\ socketEvents' = [socketEvents EXCEPT ![k].pc = "returned",
                                               ![k].threw = TRUE,
                                               ![k].thrown = thrown,
                                               ![k].answer = authenticateCatch(thrown)]
  /\ UNCHANGED <<connections, onOfflineLog>>
  /\ UNCHANGED otherThanSocket

\* disconnect: connections.onDisconnected(connectionId) resolves; without a
\* user gone offline the event is answered 200
OnDisconnectedResolves ==
  /\ \E k \in 1..Len(socketEvents) :
       LET gone == onDisconnected(socketEvents[k].connectionId)
       IN /\ socketEvents[k].pc = "onDisconnected"
          /\ connections' = Unbind(socketEvents[k].connectionId)
          /\ socketEvents' =
               [socketEvents EXCEPT
                  ![k].wentOffline = gone.wentOffline,
                  ![k].userId = gone.userId,
                  ![k].pc = IF calledOffline(gone) THEN "handleUserOffline" ELSE "returned",
                  ![k].answer = IF calledOffline(gone) THEN NotAnswered
                                ELSE APIGatewayResponse(200, "")]
  /\ UNCHANGED onOfflineLog
  /\ UNCHANGED otherThanSocket

\* disconnect: handleUserOffline calls onOffline(userId) and resolves; the
\* event is answered 200
HandleUserOfflineResolves ==
  /\ \E k \in 1..Len(socketEvents) :
       /\ socketEvents[k].pc = "handleUserOffline"
       /\ onOfflineLog' = Append(onOfflineLog, [userId |-> socketEvents[k].userId,
                                                event |-> k])
       /\ socketEvents' = [socketEvents EXCEPT ![k].pc = "returned",
                                               ![k].answer = APIGatewayResponse(200, "")]
  /\ UNCHANGED connections
  /\ UNCHANGED otherThanSocket

SocketNext ==
  \/ HandleWebSocketRequest
  \/ AuthenticateWebSocketResolves
  \/ AuthenticateWebSocketThrows
  \/ OnDisconnectedResolves
  \/ HandleUserOfflineResolves

-----------------------------------------------------------------------------
(***************************************************************************)
(* The runtime package's handleSQSMessages (runtime/src/sqs.ts): the       *)
(* records of one Lambda event, the standard messages handled side by side *)
(* and each FIFO group handled in order by its own handleFifoGroup.        *)
(***************************************************************************)
MaxRecords == 3

GroupIds == {"g1", "g2"}

\* a record of the event: its source, its MessageGroupId ("" for none) and
\* whether loadModule finds the module of its queue
RecordKinds ==
  {[eventSource |-> "aws:s3", MessageGroupId |-> "", loads |-> TRUE]}
  \cup [eventSource : {"aws:sqs"}, MessageGroupId : {""} \cup GroupIds, loads : BOOLEAN]

RecordIds == 1..MaxRecords

\* record.eventSource === "aws:sqs"
isSQSMessage(record) == record.eventSource = "aws:sqs"

\* !!message.attributes.MessageGroupId
isFifoMessage(record) == record.MessageGroupId # ""

\* the positions of the SQS records of s, from k on, whose group is `group`
RECURSIVE Positions(_, _, _)
Positions(s, k, group) ==
  IF k > Len(s) THEN <<>>
  ELSE (IF isSQSMessage(s[k]) /\ s[k].MessageGroupId = group THEN <<k>> ELSE <<>>)
       \o Positions(s, k + 1, group)

\* event.Records.filter(isSQSMessage).filter((message) => !isFifo(message))
UnorderedMessages == Positions(records, 1, "")

\* groups.get(groupId): the messages of the group, in the order of the event
GroupMessages(g) == Positions(records, 1, g)

\* the module's config: no timeout of its own
RuntimeConfig == [hasTimeout |-> FALSE, timeout |-> 0]

\* handleOneMessage is under way
InFlight(i) == oneMessage[i] \in {"loadModule", "race", "deleteMessage"}

\* while ((message = messages.shift())) after a success, with messages left
GroupGoesOn(g) ==
  oneMessage[groupMessage[g]] = "returnedTrue" /\ groups[g] # <<>>

RuntimeInit ==
  /\ \E n \in 1..MaxRecords : records \in [1..n -> RecordKinds]
  /\ sqsPc = "start"
  /\ groups = [g \in GroupIds |-> <<>>]
  /\ groupPc = [g \in GroupIds |-> "none"]
  /\ groupMessage = [g \in GroupIds |-> 0]
  /\ interval = [g \in GroupIds |-> "none"]
  /\ visibility = [g \in GroupIds |-> "none"]
  /\ oneMessage = [i \in RecordIds |-> "pending"]
  /\ visibilityTimeout = [i \in RecordIds |-> -1]
  /\ removed = {}
  /\ invoked = <<>>

\* handleSQSMessages up to its await: nothing to do without SQS records; else
\* handleUnorderedMessages calls handleOneMessage for every standard message,
\* and handleFifoMessages builds the groups and calls handleFifoGroup for each,
\* which sets its interval, shifts its first message and calls handleOneMessage
HandleSQSMessages ==
  /\ sqsPc = "start"
  /\ IF \A k \in 1..Len(records) : ~isSQSMessage(records[k])
     THEN /\ sqsPc' = "returned"
          /\ UNCHANGED <<groups, groupPc, groupMessage, interval, oneMessage>>
     ELSE /\ sqsPc' = "awaitAll"
          /\ groups' = [g \in GroupIds |->
                          IF GroupMessages(g) = <<>> THEN <<>> ELSE Tail(GroupMessages(g))]
          /\ groupMessage' = [g \in GroupIds |->
                                IF GroupMessages(g) = <<>> THEN 0 ELSE Head(GroupMessages(g))]
          /\ groupPc' = [g \in GroupIds |->
                           IF GroupMessages(g) = <<>> THEN "none" ELSE "handling"]
          /\ interval' = [g \in GroupIds |->
                            IF GroupMessages(g) = <<>> THEN "none" ELSE "set"]
          /\ oneMessage' = [i \in RecordIds |->
                              IF \/ i \in Range(UnorderedMessages)
                                 \/ \E g \in GroupIds :
                                      GroupMessages(g) # <<>> /\ i = Head(GroupMessages(g))
                              THEN "loadModule" ELSE "pending"]
  /\ UNCHANGED <<records, visibility, visibilityTimeout, removed, invoked>>
  /\ UNCHANGED otherThanRuntime

\* handleOneMessage: loadModule gave no module (the destructuring throws before
\* the try block); else the visibility of the message is extended to the
\* timeout and the handler invoked with the payload, unless the payload does
\* not parse (catch: the message goes back to the queue, return false)
LoadModuleOfRuntime(i) ==
  /\ oneMessage[i] = "loadModule"
  /\ IF ~records[i].loads
     THEN /\ oneMessage' = [oneMessage EXCEPT ![i] = "rejected"]
          /\ UNCHANGED <<visibilityTimeout, invoked>>
     ELSE \E payloadParsed \in BOOLEAN :
            IF payloadParsed
            THEN /\ oneMessage' = [oneMessage EXCEPT ![i] = "race"]
                 /\ visibilityTimeout' =
                      [visibilityTimeout EXCEPT ![i] = getTimeoutOfRuntime(RuntimeConfig)]
                 /\ invoked' = Append(invoked, i)
            ELSE /\ oneMessage' = [oneMessage EXCEPT ![i] = "returnedFalse"]
                 /\ visibilityTimeout' = [visibilityTimeout EXCEPT ![i] = 0]
                 /\ UNCHANGED invoked
  /\ UNCHANGED <<records, sqsPc, groups, groupPc, groupMessage, interval, visibility,
                 removed>>
  /\ UNCHANGED otherThanRuntime

\* the race settles: the handler returned in time (on to deleteMessage), or it
\* threw or the abort timer fired (catch: changeVisibility(message, 0), false)
HandlerSettlesOfRuntime(i) ==
  /\ oneMessage[i] = "race"
  /\ \E ok \in BOOLEAN :
       IF ok
       THEN oneMessage' = [oneMessage EXCEPT ![i] = "deleteMessage"]
            /\ UNCHANGED visibilityTimeout
       ELSE oneMessage' = [oneMessage EXCEPT ![i] = "returnedFalse"]
            /\ visibilityTimeout' = [visibilityTimeout EXCEPT ![i] = 0]
  /\ UNCHANGED <<records, sqsPc, groups, groupPc, groupMessage, interval, visibility,
                 removed, invoked>>
  /\ UNCHANGED otherThanRuntime

\* deleteMessage resolved (return true) or rejected (catch, return false)
DeleteMessageSettlesOfRuntime(i) ==
  /\ oneMessage[i] = "deleteMessage"
  /\ \E ok \in BOOLEAN :
       IF ok
       THEN /\ oneMessage' = [oneMessage EXCEPT ![i] = "returnedTrue"]
            /\ removed' = removed \cup {i}
            /\ UNCHANGED visibilityTimeout
       ELSE /\ oneMessage' = [oneMessage EXCEPT ![i] = "returnedFalse"]
            /\ visibilityTimeout' = [visibilityTimeout EXCEPT ![i] = 0]
            /\ UNCHANGED removed
  /\ UNCHANGED <<records, sqsPc, groups, groupPc, groupMessage, interval, visibility,
                 invoked>>
  /\ UNCHANGED otherThanRuntime

\* the interval of handleFifoGroup fires: changeVisibilityBatch(messages, 60)
\* for the messages still in the array; with none left getQueueURL(messages[0])
\* throws and the promise kept in `visibility` is a rejected one
IntervalFires(g) ==
  /\ interval[g] = "set"
  /\ IF groups[g] = <<>>
     THEN /\ visibility' = [visibility EXCEPT ![g] = "rejected"]
          /\ UNCHANGED visibilityTimeout
     ELSE /\ visibility' = [visibility EXCEPT ![g] = "resolved"]
          /\ visibilityTimeout' = [i \in RecordIds |->
                                     IF i \in Range(groups[g]) THEN 60
                                     ELSE visibilityTimeout[i]]
  /\ UNCHANGED <<records, sqsPc, groups, groupPc, groupMessage, interval, oneMessage,
                 removed, invoked>>
  /\ UNCHANGED otherThanRuntime

\* handleFifoGroup after its handleOneMessage settled: after a success with
\* messages left, shift the next one and handle it; after a rejection, reject
\* (the interval stays); else clear the interval, await `visibility` and give
\* the messages left back to the queue with changeVisibilityBatch(messages, 0)
HandleFifoGroup(g) ==
  /\ groupPc[g] = "handling"
  /\ ~InFlight(groupMessage[g])
  /\ IF oneMessage[groupMessage[g]] = "rejected"
     THEN /\ groupPc' = [groupPc EXCEPT ![g] = "rejected"]
          /\ UNCHANGED <<groups, groupMessage, interval, oneMessage, visibilityTimeout>>
     ELSE IF GroupGoesOn(g)
     THEN /\ groupMessage' = [groupMessage EXCEPT ![g] = Head(groups[g])]
          /\ groups' = [groups EXCEPT ![g] = Tail(groups[g])]
          /\ oneMessage' = [oneMessage EXCEPT ![Head(groups[g])] = "loadModule"]
          /\ UNCHANGED <<groupPc, interval, visibilityTimeout>>
     ELSE /\ interval' = [interval EXCEPT ![g] = "cleared"]
          /\ IF visibility[g] = "rejected"
             THEN /\ groupPc' = [groupPc EXCEPT ![g] = "rejected"]
                  /\ UNCHANGED visibilityTimeout
             ELSE /\ groupPc' = [groupPc EXCEPT ![g] = "resolved"]
                  /\ visibilityTimeout' = [i \in RecordIds |->
                                             IF i \in Range(groups[g]) THEN 0
                                             ELSE visibilityTimeout[i]]
          /\ UNCHANGED <<groups, groupMessage, oneMessage>>
  /\ UNCHANGED <<records, sqsPc, visibility, removed, invoked>>
  /\ UNCHANGED otherThanRuntime

\* handleSQSMessages' Promise.all settles: it rejects as soon as one
\* handleOneMessage of a standard message or one handleFifoGroup rejected, and
\* resolves when all of them have resolved
HandleSQSMessagesSettles ==
  /\ sqsPc = "awaitAll"
  /\ IF \/ \E i \in Range(UnorderedMessages) : oneMessage[i] = "rejected"
        \/ \E g \in GroupIds : groupPc[g] = "rejected"
     THEN sqsPc' = "rejected"
     ELSE /\ \A i \in Range(UnorderedMessages) : ~InFlight(i)
          /\ \A g \in GroupIds : groupPc[g] \in {"none", "resolved"}
          /\ sqsPc' = "resolved"
  /\ UNCHANGED <<records, groups, groupPc, groupMessage, interval, visibility,
                 oneMessage, visibilityTimeout, removed, invoked>>
  /\ UNCHANGED otherThanRuntime

RuntimeNext ==
  \/ HandleSQSMessages
  \/ HandleSQSMessagesSettles
  \/ \E i \in RecordIds : LoadModuleOfRuntime(i)
  \/ \E i \in RecordIds : HandlerSettlesOfRuntime(i)
  \/ \E i \in RecordIds : DeleteMessageSettlesOfRuntime(i)
  \/ \E g \in GroupIds : IntervalFires(g)
  \/ \E g \in GroupIds : HandleFifoGroup(g)

-----------------------------------------------------------------------------
(***************************************************************************)
(* The ambient context: class LocalStorage, getLocalStorage and            *)
(* withLocalStorage over an AsyncLocalStorage.  A task is an asynchronous  *)
(* execution context; the store it carries is the one of the task that     *)
(* created it, except for what run and exit start.                         *)
(***************************************************************************)
\* values assigned to `user`: null, undefined, objects with and without an id
UserValues ==
  {[kind |-> "null", id |-> ""], [kind |-> "undefined", id |-> ""],
   [kind |-> "object", id |-> ""], [kind |-> "object", id |-> "a"],
   [kind |-> "object", id |-> "b"]}

null == [kind |-> "null", id |-> ""]

\* JavaScript truthiness of a user value and of its id
Truthy(u) == u.kind = "object"
HasUserId(u) == u.id # ""

\* user ?? null
OrNull(u) == IF u.kind \in {"null", "undefined"} THEN null ELSE u

\* a fresh instance: _user = null, _userSet = false
NewLocalStorage == [user |-> null, userSet |-> FALSE]

\* a faulty setter that lets a later assignment overwrite the cell
setUserOverwrites(local, u) ==
  IF Truthy(u) /\ ~HasUserId(u)
  THEN [local |-> local, threw |-> "User ID is required"]
  ELSE [local |-> [user |-> OrNull(u), userSet |-> TRUE], threw |-> ""]

\* set user(user): the instance afterwards and the message of what it threw
setUser(local, u) ==
  IF local.userSet
  THEN [local |-> local, threw |-> "Local context user already set"]
  ELSE IF Truthy(u) /\ ~HasUserId(u)
       THEN [local |-> local, threw |-> "User ID is required"]
       ELSE [local |-> [user |-> OrNull(u), userSet |-> TRUE], threw |-> ""]

\* a faulty store: one current context for the whole process, the latest opened
getStoreOfProcess(t) == Len(locals)

\* asyncLocal.getStore() in task t: the instance the task carries, 0 for none
getStore(t) == tasks[t].store

NoRead == [task |-> 0, local |-> 0, user |-> null, threw |-> "", opened |-> 0]
NoSet == [task |-> 0, local |-> 0, value |-> null, wasSet |-> FALSE, threw |-> ""]

\* a faulty check that lets a context be opened inside a live one
CanOpenAnywhere(t) == TRUE

\* withLocalStorage's check: asyncLocal.getStore() must be empty
CanOpen(t) == getStore(t) = 0

\* the host's own code runs outside any event and carries no store
LocalInit ==
  /\ locals = <<>>
  /\ tasks = <<[store |-> 0, event |-> 0, via |-> "host", parent |-> 0]>>
  /\ lastRead = NoRead
  /\ lastSet = NoSet

\* withLocalStorage(localStorage, fn) called in task t for a new event: refuses
\* to nest, else runs fn in a task that carries the new instance
WithLocalStorage(t) ==
  /\ Len(locals) < MaxEvents
  /\ Len(tasks) < MaxTasks
  /\ IF ~CanOpen(t)
     THEN /\ lastSet' = [NoSet EXCEPT !.task = t, !.threw = "Can't nest runtimes"]
          /\ UNCHANGED <<locals, tasks>>
     ELSE /\ locals' = Append(locals, NewLocalStorage)
          /\ tasks' = Append(tasks, [store |-> Len(locals) + 1, event |-> Len(locals) + 1,
                                     via |-> "run", parent |-> t])
          /\ UNCHANGED lastSet
  /\ UNCHANGED lastRead
  /\ UNCHANGED otherThanLocal

\* code in task t awaits or schedules a callback: the continuation is a task
\* that carries the store of t and works for the same event
Spawn(t) ==
  /\ Len(tasks) < MaxTasks
  /\ tasks' = Append(tasks, [tasks[t] EXCEPT !.via = "spawn", !.parent = 0])
  /\ UNCHANGED <<locals, lastRead, lastSet>>
  /\ UNCHANGED otherThanLocal

\* localStorage.exit(callback) in a task of an event: the callback runs in a
\* task that carries no store and has left the event
Exit(t) ==
  /\ Len(tasks) < MaxTasks
  /\ getStore(t) # 0
  /\ tasks' = Append(tasks, [store |-> 0, event |-> 0, via |-> "exit", parent |-> t])
  /\ UNCHANGED <<locals, lastRead, lastSet>>
  /\ UNCHANGED otherThanLocal

\* getLocalStorage() in task t, then a read of .user
GetLocalStorage(t) ==
  /\ lastRead' =
       IF getStore(t) = 0
       THEN [NoRead EXCEPT !.task = t, !.threw = "Runtime not available",
                           !.opened = Len(locals)]
       ELSE [task |-> t, local |-> getStore(t), user |-> locals[getStore(t)].user,
             threw |-> "", opened |-> Len(locals)]
  /\ UNCHANGED <<locals, tasks, lastSet>>
  /\ UNCHANGED otherThanLocal

\* getLocalStorage().user = u in task t
SetUser(t, u) ==
  /\ getStore(t) # 0
  /\ LET set == setUser(locals[getStore(t)], u)
     IN /\ locals' = [locals EXCEPT ![getStore(t)] = set.local]
        /\ lastSet' = [task |-> t, local |-> getStore(t), value |-> u,
                       wasSet |-> locals[getStore(t)].userSet, threw |-> set.threw]
  /\ UNCHANGED <<tasks, lastRead>>
  /\ UNCHANGED otherThanLocal

LocalNext ==
  \/ \E t \in 1..Len(tasks) : WithLocalStorage(t)
  \/ \E t \in 1..Len(tasks) : Spawn(t)
  \/ \E t \in 1..Len(tasks) : Exit(t)
  \/ \E t \in 1..Len(tasks) : GetLocalStorage(t)
  \/ \E t \in 1..Len(tasks), u \in UserValues : SetUser(t, u)

-----------------------------------------------------------------------------
(***************************************************************************)
(* Specifications: one per part, the other parts idle                      *)
(***************************************************************************)
\* no request
RequestIdle ==
  /\ request = [method |-> "", contentType |-> NoContentType]
  /\ route = [found |-> "", cors |-> FALSE, methods |-> <<>>, accepts |-> {}]
  /\ exports = {}
  /\ corsHeaders = NoHeaders

\* a GET that handleHTTPRequest has let through to handleRoute
RequestGiven ==
  /\ request = [method |-> "GET", contentType |-> NoContentType]
  /\ route = [found |-> "found", cors |-> FALSE, methods |-> <<"*">>,
              accepts |-> {AnyType}]
  /\ exports = {"default"}
  /\ corsHeaders = NoHeaders

QueueIdle ==
  /\ queueName = <<"jobs">>
  /\ module = NoModule
  /\ region = "localhost"
  /\ batch = <<>>
  /\ messages = <<>>
  /\ message = 0
  /\ dispatch = [i \in Ids |-> NotDispatched]
  /\ deleted = {}
  /\ handlerLog = <<>>
  /\ batchPc = "idle"
  /\ batchItemFailures = <<>>

HttpIdle ==
  /\ middleware = [fn \in Functions \ {"handler"} |-> FALSE]
  /\ httpPc = "idle"
  /\ calls = <<>>
  /\ outcome = NoOutcomes
  /\ onResponseArg = NoResponse
  /\ onErrorArg = NoError
  /\ error = NoError
  /\ response = NoResponse
  /\ result = NoResponse
  /\ returned = NoResponse
  /\ timer = "none"
  /\ signalAborted = FALSE
  /\ user = NoUser
  /\ storeUser = [set |-> FALSE, user |-> NoUser]

ResultIdle ==
  /\ routeConfig = [etag |-> Undefined, cache |-> Undefined]
  /\ handled = <<>>
  /\ answer = <<>>

LoaderIdle ==
  /\ project = [api |-> <<>>, queues |-> <<>>]
  /\ loadPc = "idle"
  /\ position = 0
  /\ queues = <<>>
  /\ routes = <<>>
  /\ dupes = {}
  /\ services = NoServices
  /\ loadError = NoLoadError

UrlIdle ==
  /\ routePath = <<>>
  /\ written = <<>>
  /\ pathname = <<>>
  /\ urlPc = "idle"
  /\ matched = NoMatch
  /\ href = NoMatch

SocketIdle ==
  /\ connections = <<>>
  /\ socketEvents = <<>>
  /\ onOfflineLog = <<>>

RuntimeIdle ==
  /\ records = <<>>
  /\ sqsPc = "idle"
  /\ groups = <<>>
  /\ groupPc = <<>>
  /\ groupMessage = <<>>
  /\ interval = <<>>
  /\ visibility = <<>>
  /\ oneMessage = <<>>
  /\ visibilityTimeout = <<>>
  /\ removed = {}
  /\ invoked = <<>>

LocalIdle ==
  /\ locals = <<>>
  /\ tasks = <<>>
  /\ lastRead = NoRead
  /\ lastSet = NoSet

InitQueue == QueueInit /\ HttpIdle /\ RequestIdle /\ ResultIdle /\ LocalIdle /\ LoaderIdle /\ UrlIdle /\ SocketIdle /\ RuntimeIdle
SpecQueue == InitQueue /\ [][QueueNext]_vars

\* timers fire, continuations of settled promises run, and the calls that
\* handleOneMessage awaits other than the handler (the SDK's region and
\* deleteMessage, the module's onError) settle; the handler itself need not
FairSpecQueue ==
  /\ SpecQueue
  /\ WF_vars(FifoShift) /\ WF_vars(FifoFail) /\ WF_vars(FifoDone) /\ WF_vars(FifoReject)
  /\ WF_vars(StandardDispatch) /\ WF_vars(StandardReturn) /\ WF_vars(StandardReject)
  /\ \A i \in Ids :
       /\ WF_vars(LoadModule(i))
       /\ WF_vars(AbortTimeout(i))
       /\ WF_vars(RegionResolves(i))
       /\ WF_vars(DeleteMessageSucceeds(i) \/ DeleteMessageFails(i))
       /\ WF_vars(OnErrorSettles(i))

\* one request in handleHTTPRequest, from the route lookup on
InitRequest == RequestInit /\ QueueIdle /\ ResultIdle /\ LocalIdle /\ LoaderIdle /\ UrlIdle /\ SocketIdle /\ RuntimeIdle
SpecRequest == InitRequest /\ [][RequestNext]_vars

InitHttp == HttpInit /\ RequestGiven /\ QueueIdle /\ ResultIdle /\ LocalIdle /\ LoaderIdle /\ UrlIdle /\ SocketIdle /\ RuntimeIdle
SpecHttp == InitHttp /\ [][HttpNext]_vars

\* the deadline timer, once set and not cleared, does fire
FairSpecHttp == SpecHttp /\ WF_vars(DeadlineFires)

InitLocal == LocalInit /\ QueueIdle /\ HttpIdle /\ RequestIdle /\ ResultIdle /\ LoaderIdle /\ UrlIdle /\ SocketIdle /\ RuntimeIdle
SpecLocal == InitLocal /\ [][LocalNext]_vars

InitResult == ResultInit /\ QueueIdle /\ HttpIdle /\ LocalIdle /\ LoaderIdle /\ UrlIdle /\ SocketIdle /\ RuntimeIdle
SpecResult == InitResult /\ [][ResultNext]_vars

InitLoader ==
  LoaderInit /\ QueueIdle /\ HttpIdle /\ RequestIdle /\ ResultIdle /\ LocalIdle /\ UrlIdle /\ SocketIdle /\ RuntimeIdle
SpecLoader == InitLoader /\ [][LoaderNext]_vars

InitUrl ==
  /\ UrlInit /\ QueueIdle /\ HttpIdle /\ RequestIdle /\ ResultIdle /\ LocalIdle
  /\ LoaderIdle
  /\ SocketIdle
  /\ RuntimeIdle
SpecUrl == InitUrl /\ [][UrlNext]_vars

InitSocket ==
  /\ SocketInit /\ QueueIdle /\ HttpIdle /\ RequestIdle /\ ResultIdle /\ LocalIdle
  /\ LoaderIdle /\ UrlIdle
  /\ RuntimeIdle
SpecSocket == InitSocket /\ [][SocketNext]_vars

InitRuntime ==
  /\ RuntimeInit /\ QueueIdle /\ HttpIdle /\ RequestIdle /\ ResultIdle /\ LocalIdle
  /\ LoaderIdle /\ UrlIdle /\ SocketIdle
SpecRuntime == InitRuntime /\ [][RuntimeNext]_vars


-----------------------------------------------------------------------------
(***************************************************************************)
(* Properties of the queue dispatcher                                      *)
(***************************************************************************)
\* handleOneMessage returned true: the message reached the deleted state
Succeeded(m) == dispatch[m].pc = "returnedTrue"
\* handleOneMessage returned false: the message reached the failed state
Failed(m) == dispatch[m].pc = "returnedFalse"
\* the success left the message removed from the queue (no request in local mode)
RemovedFromQueue(m) == region # "localhost" => messageId(m) \in deleted

FifoReturned == isFifoQueue(queueName) /\ batchPc = "returned"
StandardReturned == ~isFifoQueue(queueName) /\ batchPc = "returned"

FailedPositions == {k \in 1..Len(batch) : Failed(batch[k])}
FirstFailedPosition == CHOOSE k \in FailedPositions : \A j \in FailedPositions : k <= j

\* C1: when handleFifoMessages has returned and m_k is the first message whose
\* dispatch failed, the report is exactly m_k, ..., m_{n-1} in arrival order and
\* every message before m_k succeeded and was deleted from the queue; when no
\* message failed the report is empty (and every message was deleted).
C1_FifoCutOff ==
  FifoReturned =>
    IF FailedPositions # {}
    THEN /\ batchItemFailures =
              [j \in 1..(Len(batch) - FirstFailedPosition + 1) |->
                 messageId(batch[FirstFailedPosition + j - 1])]
         /\ \A j \in 1..(FirstFailedPosition - 1) :
              Succeeded(batch[j]) /\ RemovedFromQueue(batch[j])
    ELSE /\ batchItemFailures = <<>>
         /\ \A j \in 1..Len(batch) : Succeeded(batch[j]) /\ RemovedFromQueue(batch[j])

\* C1 witness: a batch of three whose second message failed after the first was
\* deleted from the (remote) queue; the report is the second and the third.
C1_Witness ==
  /\ FifoReturned
  /\ Len(batch) = 3
  /\ region # "localhost"
  /\ Failed(2)
  /\ 1 \in deleted
  /\ batchItemFailures = <<2, 3>>

\* C2: when handleStandardMessages has returned, the report holds exactly the ids
\* of the messages whose dispatch did not reach the deleted (success) state, each
\* once, whatever the order in which the handlers ran and completed.
C2_StandardReport ==
  StandardReturned =>
    /\ Range(batchItemFailures) =
         {messageId(batch[k]) : k \in {j \in 1..Len(batch) : ~Succeeded(batch[j])}}
    /\ Cardinality(Range(batchItemFailures)) = Len(batchItemFailures)
    /\ \A k \in 1..Len(batch) : Succeeded(batch[k]) => RemovedFromQueue(batch[k])

\* C2 witness: the second message's handler ran before the first's, the first
\* failed and the second was deleted; the report is the first alone.
C2_Witness ==
  /\ StandardReturned
  /\ handlerLog = <<2, 1>>
  /\ Failed(1)
  /\ 2 \in deleted
  /\ batchItemFailures = <<1>>

\* a message whose handleOneMessage call is under way
InDispatch(m) == dispatch[m].pc \notin {"pending", "returnedTrue", "returnedFalse", "threw"}

\* C3: in a FIFO batch the handler invocations are a prefix of the batch in
\* arrival order; a message is dispatched only after every earlier message's
\* dispatch has finished with success, its delete included; no two messages are
\* being handled (and no two handlers run) at the same time; and after the first
\* failure no later message gets its handler invoked or a delete issued.
C3_FifoDiscipline ==
  isFifoQueue(queueName) =>
    /\ Len(handlerLog) <= Len(batch)
    /\ handlerLog = [k \in 1..Len(handlerLog) |-> batch[k]]
    /\ \A k \in 2..Len(batch) :
         dispatch[batch[k]].pc # "pending" =>
           Succeeded(batch[k - 1]) /\ RemovedFromQueue(batch[k - 1])
    /\ Cardinality({m \in Range(batch) : InDispatch(m)}) <= 1
    /\ Cardinality({m \in Range(batch) : dispatch[m].handler = "running"}) <= 1
    /\ \A k \in 1..Len(batch) :
         dispatch[batch[k]].pc \in {"returnedFalse", "threw"} =>
           \A j \in (k + 1)..Len(batch) :
             /\ dispatch[batch[j]].pc = "pending"
             /\ dispatch[batch[j]].handler = "notInvoked"
             /\ ~dispatch[batch[j]].deleteRequested
             /\ messageId(batch[j]) \notin deleted

\* C3 witness: a batch of three where the handlers of the first and the second
\* ran in order, the second failed, and the third was never dispatched.
C3_Witness ==
  /\ FifoReturned
  /\ Len(batch) = 3
  /\ handlerLog = <<1, 2>>
  /\ Succeeded(1)
  /\ Failed(2)
  /\ dispatch[3].pc = "pending"

-----------------------------------------------------------------------------
(***************************************************************************)
(* Properties of the HTTP request engine                                   *)
(***************************************************************************)
Rank(fn) ==
  CASE fn = "onRequest"    -> 1
    [] fn = "authenticate" -> 2
    [] fn = "handler"      -> 3
    [] fn = "onResponse"   -> 4
    [] fn = "onError"      -> 5

CallPositions == {k \in 1..Len(calls) : calls[k].ev = "call"}
Called(fn) == \E k \in CallPositions : calls[k].fn = fn
CallCount(fn) == Cardinality({k \in CallPositions : calls[k].fn = fn})
PipelineDone == httpPc = "done"

\* C4: the user functions of a request are invoked in the order onRequest,
\* authenticate, handler, onResponse, onError, each at most once; a call starts
\* only when the call before it has ended; and onError is not invoked unless
\* onResponse, when the middleware has it, was invoked before.
C4_MiddlewareOrder ==
  /\ \A j, k \in CallPositions : j < k => Rank(calls[j].fn) < Rank(calls[k].fn)
  /\ \A k \in 1..Len(calls) :
       IF k % 2 = 1
       THEN calls[k].ev = "call"
       ELSE calls[k].ev = "end" /\ calls[k].fn = calls[k - 1].fn
  /\ \A k \in CallPositions :
       (calls[k].fn = "onError" /\ middleware.onResponse) =>
         \E j \in CallPositions : j < k /\ calls[j].fn = "onResponse"
  /\ \A k \in CallPositions :
       calls[k].fn # "handler" => middleware[calls[k].fn]

\* C4 witness: all five were invoked, in order, each after the one before ended.
C4_Witness ==
  /\ Len(calls) = 10
  /\ [k \in 1..5 |-> calls[2 * k - 1].fn] =
       <<"onRequest", "authenticate", "handler", "onResponse", "onError">>

RaceStarted == httpPc \notin {"idle", "handleRoute", "rejected"}

\* C5: once handleRoute has started the race, a pipeline that resolves before
\* the deadline gives the response that is returned; a deadline that fires
\* first aborts the signal and the response is 500 "Timed Out"; and a started
\* race always leads to a returned response, even when the handler never completes.
C5_DeadlineRace ==
  /\ [](/\ (PipelineDone /\ timer = "cleared") =>
             (returned = result /\ result # NoResponse)
        /\ (RaceStarted /\ timer = "fired") => (returned = TimedOut /\ signalAborted)
        /\ returned = TimedOut => timer = "fired"
        /\ PipelineDone => timer \in {"cleared", "fired"})
  /\ RaceStarted ~> (returned # NoResponse)

\* C5 witness: the handler is still running and the request was answered with
\* 500 "Timed Out", the signal aborted.
C5_Witness ==
  /\ httpPc = "handler"
  /\ returned = TimedOut
  /\ signalAborted

Throwers == {"onRequest", "authenticate", "handler", "onResponse"}

\* C6 (as claimed): when the pipeline has resolved and one of onRequest,
\* authenticate, handler, onResponse threw a value that is not a Response, an
\* existing onError was invoked exactly once, with the error of one of them,
\* and the response is a 500 unless onResponse threw a Response in its place;
\* onError is never invoked twice, and its own failure leaves the response.
C6_OnErrorExactlyOnce ==
  /\ CallCount("onError") <= 1
  /\ (PipelineDone /\ \E fn \in Throwers : outcome[fn] = "threwError") =>
       /\ middleware.onError =>
            /\ CallCount("onError") = 1
            /\ \E fn \in Throwers :
                 outcome[fn] = "threwError" /\ onErrorArg = AsError(Thrown("Error", fn))
       /\ result = IF outcome["onResponse"] = "threwResponse"
                   THEN ThrownResponse("onResponse")
                   ELSE InternalServerError

ThrewResponse == {fn \in {"onRequest", "authenticate", "handler"} :
                    outcome[fn] = "threwResponse"}

HandlerGate ==
  /\ Called("handler") =>
       /\ middleware.onRequest => outcome["onRequest"] = "returned"
       /\ middleware.authenticate => (outcome["authenticate"] = "returned" /\ HasId(user))
       /\ storeUser = [set |-> TRUE, user |-> user]
  /\ (outcome["authenticate"] = "returned" /\ ~HasId(user)) => ~Called("handler")
  /\ outcome["authenticate"] \in {"threwResponse", "threwError"} => ~Called("handler")

\* C8 (as claimed): the gate, and the response is 403 Forbidden when
\* authenticate returned no user or a user without id, and is the Response
\* authenticate threw when it threw one.
C8_AuthenticationGateAsClaimed ==
  /\ HandlerGate
  /\ (PipelineDone /\ outcome["authenticate"] = "returned" /\ ~HasId(user)) =>
       result = Forbidden
  /\ (PipelineDone /\ outcome["authenticate"] = "threwResponse") =>
       result = ThrownResponse("authenticate")

\* C8 (amended): the gate; when authenticate returned no user or a user without
\* id, 403 Forbidden is the response given to onResponse and the pipeline's
\* result, and when authenticate threw a Response that Response is - in both
\* cases unless onResponse throws another Response, which replaces it.
C8_AuthenticationGate ==
  /\ HandlerGate
  /\ (outcome["authenticate"] = "returned" /\ ~HasId(user)) =>
       /\ middleware.onResponse => (Called("onResponse") /\ onResponseArg = Forbidden)
       /\ PipelineDone =>
            result = IF outcome["onResponse"] = "threwResponse"
                     THEN ThrownResponse("onResponse")
                     ELSE Forbidden
  /\ outcome["authenticate"] = "threwResponse" =>
       /\ middleware.onResponse =>
            (Called("onResponse") /\ onResponseArg = ThrownResponse("authenticate"))
       /\ PipelineDone =>
            result = IF outcome["onResponse"] = "threwResponse"
                     THEN ThrownResponse("onResponse")
                     ELSE ThrownResponse("authenticate")

\* C8 witness: authenticate returned a user without id after onRequest
\* returned; the handler was not invoked and the result is 403 Forbidden.
C8_Witness ==
  /\ PipelineDone
  /\ outcome["onRequest"] = "returned"
  /\ outcome["authenticate"] = "returned"
  /\ user = UserWithoutId
  /\ ~Called("handler")
  /\ result = Forbidden

-----------------------------------------------------------------------------
(***************************************************************************)
(* Properties of the ambient context                                       *)
(***************************************************************************)
\* the step is an assignment to user
Assigns == lastSet' # lastSet /\ lastSet'.local # 0

\* C9: in every LocalStorage instance the first assignment of a user with an
\* id, of null or of undefined succeeds and stores the user, or null; every
\* assignment after it throws "Local context user already set"; and a cell
\* that has been assigned never changes again.
C9_SetOnceUser ==
  /\ [][\A e \in 1..Len(locals) : locals[e].userSet => locals'[e] = locals[e]]_vars
  /\ [][Assigns =>
          LET e == lastSet'.local
              u == lastSet'.value
          IN IF locals[e].userSet
             THEN lastSet'.threw = "Local context user already set"
             ELSE IF u.kind = "object" /\ u.id = ""
                  THEN /\ lastSet'.threw = "User ID is required"
                       /\ locals'[e] = locals[e]
                  ELSE /\ lastSet'.threw = ""
                       /\ locals'[e].userSet
                       /\ locals'[e].user = IF u.kind = "object" THEN u ELSE null]_vars

\* C9 witness: user "b" was assigned to a cell that holds user "a"; the
\* assignment threw and the cell still holds "a".
C9_Witness ==
  /\ lastSet.local # 0
  /\ lastSet.wasSet
  /\ lastSet.value = [kind |-> "object", id |-> "b"]
  /\ lastSet.threw = "Local context user already set"
  /\ locals[lastSet.local] = [user |-> [kind |-> "object", id |-> "a"], userSet |-> TRUE]

\* the step is a getLocalStorage()
Reads == lastRead' # lastRead

\* C10: a getLocalStorage() in a task that works for an event returns the
\* instance opened for that event, with that instance's user, whatever other
\* events are open; in a task outside any event it throws "Runtime not
\* available"; and an assignment to user changes the instance of the
\* assigning task's event and no other.
C10_ContextIsolation ==
  /\ [][Reads =>
          LET e == tasks[lastRead'.task].event
          IN IF e = 0
             THEN lastRead'.threw = "Runtime not available" /\ lastRead'.local = 0
             ELSE /\ lastRead'.threw = ""
                  /\ lastRead'.local = e
                  /\ lastRead'.user = locals[e].user]_vars
  /\ [][\A e \in 1..Len(locals) :
          locals'[e] # locals[e] => tasks[lastSet'.task].event = e]_vars

\* C10 witness: two events are open with different users, and a task of the
\* first event read its own context and user after the second was opened.
C10_Witness ==
  /\ Len(locals) = 2
  /\ locals[1].user = [kind |-> "object", id |-> "a"]
  /\ locals[2].user = [kind |-> "object", id |-> "b"]
  /\ lastRead.opened = 2
  /\ lastRead.task # 0
  /\ tasks[lastRead.task].event = 1
  /\ lastRead.local = 1
  /\ lastRead.user = [kind |-> "object", id |-> "a"]

\* the step opens a context; the task started for it is the last one
Opens == Len(locals') > Len(locals)
Opened == tasks'[Len(tasks')]

\* the step is a withLocalStorage that threw
Nests == lastSet' # lastSet /\ lastSet'.threw = "Can't nest runtimes"

\* C11: a context is opened only by a task that carries none, and a
\* withLocalStorage that throws "Can't nest runtimes" was called in a task
\* that carries one and leaves contexts and tasks as they were; the callback
\* of exit carries no context, so getLocalStorage throws in it; and the task
\* that called exit, like every task, keeps the context it carries and reads it.
C11_NestAndExit ==
  /\ [][Opens => (Opened.via = "run" /\ tasks[Opened.parent].store = 0)]_vars
  /\ [][Nests => (/\ tasks[lastSet'.task].store # 0
                  /\ locals' = locals
                  /\ tasks' = tasks)]_vars
  /\ [](\A t \in 1..Len(tasks) : tasks[t].via = "exit" => tasks[t].store = 0)
  /\ [][\A t \in 1..Len(tasks) : tasks'[t] = tasks[t]]_vars
  /\ [][Reads =>
          LET t == lastRead'.task
          IN IF tasks[t].store = 0
             THEN lastRead'.threw = "Runtime not available"
             ELSE lastRead'.threw = "" /\ lastRead'.local = tasks[t].store]_vars

\* C11 witness: a task of the first context called exit, the callback opened a
\* second context, a nested withLocalStorage has thrown, and afterwards the
\* task that called exit read the first context.
C11_Witness ==
  /\ Len(locals) = 2
  /\ lastRead.opened = 2
  /\ lastRead.task # 0
  /\ lastRead.local = 1
  /\ lastSet.threw = "Can't nest runtimes"
  /\ \E x, r \in 1..Len(tasks) :
       /\ tasks[x].via = "exit" /\ tasks[x].parent = lastRead.task
       /\ tasks[r].via = "run" /\ tasks[r].parent = x /\ tasks[r].store = 2

\* C11 witness of the escape: a read inside the callback of exit threw.
C11_WitnessInsideExit ==
  /\ lastRead.task # 0
  /\ tasks[lastRead.task].via = "exit"
  /\ lastRead.threw = "Runtime not available"

-----------------------------------------------------------------------------
(***************************************************************************)
(* Properties of handleOneMessage                                          *)
(***************************************************************************)
\* where a message is: not yet given to handleOneMessage, being handled,
\* deleted (handleOneMessage returned true) or failed (it returned false, or
\* it rejected and the batch function with it)
Phase(d) ==
  CASE d.pc = "pending" -> "pending"
    [] d.pc \in {"loadModule", "race", "region", "deleteMessage", "onError"} -> "handling"
    [] d.pc = "returnedTrue" -> "deleted"
    [] d.pc \in {"returnedFalse", "threw"} -> "failed"

PhaseSteps ==
  {<<"pending", "handling">>, <<"handling", "deleted">>, <<"handling", "failed">>}

Reported(m) == messageId(m) \in Range(batchItemFailures)

\* C12: a message only moves pending -> handling -> deleted or failed, and
\* stays where it ended; the delete request is issued only after the handler
\* returned, only a deleted or failing-on-delete message has one, the backend
\* removes a message only on such a request; a deleted message is removed from
\* the queue (outside local mode) and is never in batchItemFailures, and a
\* failed message is never removed.
C12_MessageStateMachine ==
  /\ [][\A i \in Ids :
          Phase(dispatch'[i]) # Phase(dispatch[i]) =>
            <<Phase(dispatch[i]), Phase(dispatch'[i])>> \in PhaseSteps]_vars
  /\ [](\A i \in Ids :
          /\ dispatch[i].deleteRequested => dispatch[i].handler = "returned"
          /\ messageId(i) \in deleted => dispatch[i].deleteRequested
          /\ Phase(dispatch[i]) = "deleted" =>
               /\ dispatch[i].handler = "returned"
               /\ RemovedFromQueue(i)
               /\ ~Reported(i)
          /\ Phase(dispatch[i]) = "failed" => messageId(i) \notin deleted)

\* C12 witness: in one returned batch a message was deleted from the queue
\* and another failed after its handler threw, and only the second is reported.
C12_Witness ==
  /\ batchPc = "returned"
  /\ region # "localhost"
  /\ \E i, j \in Range(batch) :
       /\ Phase(dispatch[i]) = "deleted" /\ messageId(i) \in deleted /\ ~Reported(i)
       /\ Phase(dispatch[j]) = "failed" /\ dispatch[j].handler = "threw" /\ Reported(j)

\* the deadline of message i fired while its handler had not completed
DeadlineHit(i) == dispatch[i].abortTimeout = "fired" /\ dispatch[i].handler = "running"

\* failing after the deadline fired, with no delete requested or done
TimedOutFailing(i) ==
  /\ dispatch[i].abortTimeout = "fired"
  /\ dispatch[i].aborted
  /\ dispatch[i].pc \in {"onError", "returnedFalse"}
  /\ ~dispatch[i].deleteRequested
  /\ messageId(i) \notin deleted

PastLoadModule(i) == module.present /\ dispatch[i].pc \notin {"pending", "loadModule"}

\* C14: the timeout of a message is the minimum of the timeout getTimeout gives
\* for the module's config and the remaining time the message was dispatched
\* with; when that minimum is <= 0 no timer is set, the handler is not invoked,
\* no delete is requested or done, handleOneMessage returns false and the
\* returned report holds the message.
C14_EffectiveTimeout ==
  \A i \in Ids :
    PastLoadModule(i) =>
      LET t == Min(getTimeout(module), dispatch[i].remainingTime)
      IN IF t <= 0
         THEN /\ dispatch[i].pc = "returnedFalse"
              /\ dispatch[i].abortTimeout = "none"
              /\ dispatch[i].handler = "notInvoked"
              /\ i \notin Range(handlerLog)
              /\ ~dispatch[i].deleteRequested
              /\ messageId(i) \notin deleted
              /\ batchPc = "returned" => Reported(i)
         ELSE /\ dispatch[i].timeout = t
              /\ dispatch[i].abortTimeout # "none"

\* C14 witness: the first message ran with the remaining time as its timeout,
\* below the configured one, and was deleted; the second was dispatched with no
\* time left, its handler was not invoked and it is reported as failed.
C14_Witness ==
  /\ batchPc = "returned"
  /\ Len(batch) >= 2
  /\ module.present /\ module.hasTimeout /\ module.timeout = 20
  /\ dispatch[1].remainingTime = 7 /\ dispatch[1].timeout = 7
  /\ dispatch[1].pc = "returnedTrue"
  /\ dispatch[2].remainingTime = 0
  /\ dispatch[2].handler = "notInvoked"
  /\ dispatch[2].pc = "returnedFalse"
  /\ Reported(2)

\* handleOneMessage of message i entered its try block (the timer was set)
EnteredTry(i) == dispatch[i].abortTimeout # "none"

\* C15 (as claimed): every message in the returned report had onError invoked
\* exactly once when the module exports onError.
C15_OnErrorForEveryReported ==
  \A i \in Range(batch) :
    (batchPc = "returned" /\ Reported(i) /\ module.onError) =>
      dispatch[i].onErrorCalls = 1

\* C15 (amended): onError is invoked at most once per message, and only when
\* the module exports it; a message that failed inside the try block of
\* handleOneMessage had it invoked exactly once before handleOneMessage
\* returned false, hence before the report; a message that failed because no
\* time was left, or that was reported without being dispatched, had it not
\* invoked; an exception of onError still gives false, and the batch function
\* of an existing module never rejects.
C15_QueueOnError ==
  /\ \A i \in Ids :
       /\ dispatch[i].onErrorCalls <= 1
       /\ ~module.onError => dispatch[i].onErrorCalls = 0
       /\ ~EnteredTry(i) => dispatch[i].onErrorCalls = 0
       /\ (dispatch[i].pc = "returnedFalse" /\ EnteredTry(i) /\ module.onError) =>
            (dispatch[i].onErrorCalls = 1 /\ dispatch[i].onErrorResult # "none")
       /\ dispatch[i].onErrorResult # "none" => dispatch[i].pc = "returnedFalse"
       /\ dispatch[i].pc = "returnedTrue" => dispatch[i].onErrorCalls = 0
  /\ module.present => batchPc # "rejected"
  /\ batchPc = "returned" =>
       \A i \in Range(batch) : dispatch[i].pc = "returnedFalse" => Reported(i)

\* C15 witness: the handler of a message threw, onError was invoked once and
\* threw too, and the batch function returned a report with that message.
C15_Witness ==
  /\ batchPc = "returned"
  /\ module.onError
  /\ \E i \in Range(batch) :
       /\ dispatch[i].handler = "threw"
       /\ dispatch[i].onErrorCalls = 1
       /\ dispatch[i].onErrorResult = "threw"
       /\ dispatch[i].pc = "returnedFalse"
       /\ Reported(i)

\* C16 (as claimed): with no module for the queue, handleOneMessage does not
\* reject, the batch function does not reject either, and the report it
\* returns holds every message of the batch.
C16_MissingModule ==
  ~module.present =>
    /\ \A i \in Range(batch) : dispatch[i].pc # "threw"
    /\ batchPc # "rejected"
    /\ batchPc = "returned" => \A i \in Range(batch) : Reported(i)

-----------------------------------------------------------------------------
(***************************************************************************)
(* Properties of handleHTTPRequest before the pipeline                     *)
(***************************************************************************)
RouteFound == route.found = "found" /\ httpPc # "findRoute"

\* the pipeline was not entered: no timer, no context with a user, no call
PipelineNotEntered ==
  /\ httpPc = "answered"
  /\ timer = "none"
  /\ ~signalAborted
  /\ calls = <<>>
  /\ \A fn \in Functions : outcome[fn] = "none"
  /\ ~storeUser.set
  /\ result = NoResponse

\* C17: an OPTIONS request to a found route with CORS is answered 204 with
\* Access-Control-Allow-Origin *, Access-Control-Allow-Methods the route's
\* methods joined by ", " (* for any) and Access-Control-Allow-Headers
\* "Content-Type, Authorization", and the pipeline is not entered: no timer,
\* no context, none of onRequest, authenticate, handler, onResponse, onError -
\* whatever the route's methods, accepted types and exported handlers.
C17_CorsPreflight ==
  (RouteFound /\ route.cors /\ request.method = "OPTIONS") =>
    /\ returned = NoContent
    /\ DOMAIN corsHeaders = {"Access-Control-Allow-Origin", "Access-Control-Allow-Methods",
                             "Access-Control-Allow-Headers"}
    /\ corsHeaders["Access-Control-Allow-Origin"] = <<"*">>
    /\ corsHeaders["Access-Control-Allow-Methods"] =
         (IF Len(route.methods) = 1 THEN route.methods
          ELSE <<route.methods[1], ", ", route.methods[2]>>)
    /\ corsHeaders["Access-Control-Allow-Headers"] = <<"Content-Type, Authorization">>
    /\ PipelineNotEntered

\* C17 witness: a preflight to a CORS route that allows only GET, accepts only
\* JSON and exports no handler at all was answered 204 with the CORS headers.
C17_Witness ==
  /\ httpPc = "answered"
  /\ request.method = "OPTIONS"
  /\ route.found = "found" /\ route.cors
  /\ route.methods = <<"GET">>
  /\ AnyType \notin route.accepts
  /\ exports = {}
  /\ returned = NoContent
  /\ corsHeaders # NoHeaders
  /\ corsHeaders["Access-Control-Allow-Methods"] = <<"GET">>


\* what onResponse was called with: the handler's result made a Response, a
\* Response thrown before it, or the 500 built for an error
OnResponseCalledWith ==
  IF \E fn \in ThrewResponse : TRUE THEN "thrownResponse"
  ELSE IF error # NoError THEN "serverError"
  ELSE "result"

\* C18: whenever onResponse threw a Response, the pipeline resolves with that
\* Response, whether onResponse was called with the handler's result, with a
\* thrown Response or with the 500 built for an error; and it is the response
\* returned unless the deadline answered first.
C18_OnResponseReplaces ==
  (PipelineDone /\ outcome["onResponse"] = "threwResponse") =>
    /\ result = ThrownResponse("onResponse")
    /\ response = ThrownResponse("onResponse")
    /\ returned = IF timer = "fired" THEN TimedOut ELSE ThrownResponse("onResponse")

\* C18 witness: the handler threw an error, onResponse was called with the 500
\* built for it and threw a Response, and that Response was returned.
C18_Witness ==
  /\ PipelineDone
  /\ outcome["handler"] = "threwError"
  /\ onResponseArg = InternalServerError
  /\ outcome["onResponse"] = "threwResponse"
  /\ returned = ThrownResponse("onResponse")

\* the same after a handler's normal result
C18_WitnessResult ==
  /\ PipelineDone
  /\ OnResponseCalledWith = "result"
  /\ onResponseArg = StatusAndBody("object")
  /\ outcome["onResponse"] = "threwResponse"
  /\ returned = ThrownResponse("onResponse")

\* the same after a thrown Response
C18_WitnessThrownResponse ==
  /\ PipelineDone
  /\ OnResponseCalledWith = "thrownResponse"
  /\ onResponseArg = ThrownResponse("onRequest")
  /\ outcome["onResponse"] = "threwResponse"
  /\ returned = ThrownResponse("onResponse")

\* onRequest, authenticate or the handler failed with a value that is not a
\* Response, and onResponse, called with the 500, failed with an error too
BothFailed ==
  /\ error # NoError
  /\ ~IsResponse(error)
  /\ outcome["onResponse"] = "threwError"

\* C19: when onRequest, authenticate or the handler threw an error E and
\* onResponse threw an error E2, onResponse had been called with the 500, an
\* existing onError is invoked once and with E, never with E2, and the pipeline
\* resolves with the 500, which is returned unless the deadline answered first.
C19_OriginalErrorKept ==
  BothFailed =>
    /\ onResponseArg = InternalServerError
    /\ error.by \in {"onRequest", "authenticate", "handler", "resultToResponse"}
    /\ httpPc \in {"errOnError", "done"}
    /\ middleware.onError <=> Called("onError")
    /\ Called("onError") =>
         /\ CallCount("onError") = 1
         /\ onErrorArg = AsError(error)
         /\ onErrorArg.by # "onResponse"
    /\ PipelineDone =>
         /\ result = InternalServerError
         /\ returned = IF timer = "fired" THEN TimedOut ELSE InternalServerError

\* C19 witness: the handler threw an error, onResponse got the 500 and threw an
\* error, onError was invoked with the handler's error and the 500 was returned.
C19_Witness ==
  /\ PipelineDone
  /\ outcome["handler"] = "threwError"
  /\ error = Thrown("Error", "handler")
  /\ outcome["onResponse"] = "threwError"
  /\ outcome["onError"] = "returned"
  /\ onErrorArg = AsError(Thrown("Error", "handler"))
  /\ returned = InternalServerError

\* onResponse is invoked at most once for a request.
OnResponseAtMostOnce == CallCount("onResponse") <= 1

\* handleOnResponse: onResponse, called with the handler's result, threw an error
FailedOnResult == error = NoError /\ outcome["onResponse"] = "threwError"

\* on the path of handleOnResponse the error of onResponse goes to an existing
\* onError, the pipeline resolves with the 500 and onResponse is not called again.
OnResponseErrorOnResult ==
  FailedOnResult =>
    /\ CallCount("onResponse") = 1
    /\ middleware.onError <=> Called("onError")
    /\ Called("onError") => onErrorArg = AsError(Thrown("Error", "onResponse"))
    /\ httpPc \in {"onError", "done"}
    /\ PipelineDone => result = InternalServerError

\* C20 (as claimed): onResponse is invoked at most once for a request; and when
\* onResponse threw a value that is not a Response, the pipeline resolves with
\* the 500 and an existing onError has been invoked: with the error of
\* onResponse, or with the original error when one was thrown before it.
C20_OnResponseNotReinvoked ==
  /\ OnResponseAtMostOnce
  /\ (PipelineDone /\ outcome["onResponse"] = "threwError") =>
       /\ result = InternalServerError
       /\ middleware.onError =>
            /\ Called("onError")
            /\ onErrorArg = IF BothFailed THEN AsError(error)
                            ELSE AsError(Thrown("Error", "onResponse"))

-----------------------------------------------------------------------------
(***************************************************************************)
(* Properties of the answer made from the handler's result                 *)
(***************************************************************************)
\* the request was answered from what its handler returned
Coerced(i) ==
  /\ answer[i] \notin {NoAnswer, TimedOutAnswer}
  /\ handled[i].how = "returns"

\* the header is there with this value
HasValue(headers, name, value) == Has(headers, name) /\ headers[name] = value

\* JSON.stringify gives a document for the value
Serialisable(r) == r.type \in {"boolean", "number", "object", "array"}

\* the answer for a result of each kind, as the rule for results has it
CoercedByKind(i) ==
  LET r == handled[i].value
      a == answer[i]
  IN /\ r.type = "Response" =>
          /\ a.status = r.response.status
          /\ a.body = r.response.body
          /\ \A h \in DOMAIN r.response.headers :
               HasValue(a.headers, h, r.response.headers[h])
     /\ r.type \in {"string", "buffer"} =>
          /\ a.status = 200
          /\ a.body = r.str
          /\ HasValue(a.headers, "Content-Type", "text/plain; charset=utf-8")
     /\ Serialisable(r) =>
          /\ a.status = 200
          /\ a.body = JSONStringify(r)
          /\ HasValue(a.headers, "Content-Type", "application/json")
     /\ a.status = 204 => r.type \in {"undefined", "null"}
     /\ r.type \in {"undefined", "null"} => a.status = 204 /\ a.body = ""

\* C21 (as claimed): a returned Response keeps its status, body and headers; a
\* string or a buffer gives 200 text/plain; charset=utf-8 with the text as body;
\* every other JSON-serialisable value gives 200 application/json with its JSON
\* encoding as body; and only undefined or null gives 204.
C21_ResultCoercion == \A i \in Requests : Coerced(i) => CoercedByKind(i)

\* the same rule holds for every result that is truthy, a string, undefined or null
ResultCoercionOfTruthy ==
  \A i \in Requests :
    (Coerced(i) /\ (ToBoolean(handled[i].value) \/ handled[i].value.type
                      \in {"string", "undefined", "null"})) => CoercedByKind(i)

CachingHeaders == {"ETag", "Cache-Control"}

\* the headers the handler put on the Response it returned or threw
OwnHeadersOf(i) ==
  IF handled[i].value.type = "Response" THEN handled[i].value.response.headers
  ELSE NoHeaders

\* C22: an answer whose status is not 200 (a returned Response with another
\* status, the 204 for a missing result, a thrown Response, the 500 for an
\* error, the 500 for a timeout) has an ETag or a Cache-Control header only if
\* the handler's own Response had it, with the handler's value, whatever the
\* route's etag and cache policies.
C22_NoCachingHeadersOnNon200 ==
  \A i \in Requests :
    (answer[i] # NoAnswer /\ answer[i].status # 200) =>
      \A h \in CachingHeaders :
        Has(answer[i].headers, h) =>
          /\ answer[i] # TimedOutAnswer
          /\ HasValue(OwnHeadersOf(i), h, answer[i].headers[h])

\* C22 witness: on a route with etag "v1" and cache 60 one handler returned a
\* 404 Response and the other nothing; the answers are the 404 and a 204, both
\* without ETag and Cache-Control.
C22_Witness ==
  /\ routeConfig = [etag |-> String("v1"), cache |-> Number(60)]
  /\ handled[1] = [how |-> "returns",
                   value |-> ResponseValue(Response("page", NoHeaders, 404))]
  /\ handled[2] = [how |-> "returns", value |-> Undefined]
  /\ answer[1].status = 404
  /\ answer[2].status = 204
  /\ \A i \in Requests : \A h \in CachingHeaders : ~Has(answer[i].headers, h)

\* both requests were answered from an object their handlers returned, and the
\* two bodies are the same
SameBodies(i, j) ==
  /\ Coerced(i) /\ Coerced(j)
  /\ handled[i].value.type = "object" /\ handled[j].value.type = "object"
  /\ answer[i].body = answer[j].body

\* the two answers carry the same ETag
SameETag(i, j) ==
  /\ Has(answer[i].headers, "ETag") /\ Has(answer[j].headers, "ETag")
  /\ answer[i].headers["ETag"] = answer[j].headers["ETag"]

\* C23 (as claimed): when the handlers of two requests returned objects, the
\* route's etag policy is not false and the two bodies are identical, the two
\* answers carry identical ETag values.
C23_ETagDeterminism ==
  \A i, j \in Requests :
    (SameBodies(i, j) /\ routeConfig.etag # Boolean(FALSE)) => SameETag(i, j)

\* C23 (amended): the same for an etag policy that is absent, true or a string,
\* and for a function that gives one value for both results.
C23_ETagDeterminismOfValue ==
  \A i, j \in Requests :
    (/\ SameBodies(i, j)
     /\ routeConfig.etag # Boolean(FALSE)
     /\ etagOf(routeConfig, handled[i].value) = etagOf(routeConfig, handled[j].value)
     /\ ToBoolean(etagOf(routeConfig, handled[i].value))) => SameETag(i, j)

\* C23 witness: with no etag policy the handlers returned two different objects
\* with one JSON document; both answers have the digest of it as ETag.
C23_Witness ==
  /\ routeConfig.etag = Undefined
  /\ handled[1].value = Object(<<Property("a", Number(1))>>)
  /\ handled[2].value = Object(<<Property("a", Number(1)), Property("b", Undefined)>>)
  /\ answer[1].body = "{\"a\":1}"
  /\ answer[2].body = "{\"a\":1}"
  /\ HasValue(answer[1].headers, "ETag", md5("{\"a\":1}"))
  /\ SameETag(1, 2)

\* the number of seconds the route's cache policy yields for the request's result
CacheSeconds(i) == cacheOf(routeConfig, handled[i].value)

\* a positive number
Positive(v) == v.type = "number" /\ v.num > 0

\* the Cache-Control rule for the answer of request i, where adds tells whether
\* the policy's value for it is one to add the header for
CacheControlRule(i, adds) ==
  (Coerced(i) /\ answer[i].status = 200) =>
    /\ \A h \in CachingHeaders :
         Has(OwnHeadersOf(i), h) => HasValue(answer[i].headers, h, OwnHeadersOf(i)[h])
    /\ ~Has(OwnHeadersOf(i), "Cache-Control") =>
         /\ Has(answer[i].headers, "Cache-Control") <=> adds
         /\ Has(answer[i].headers, "Cache-Control") =>
              answer[i].headers["Cache-Control"] =
                "private, max-age=" \o NumberToString(CacheSeconds(i).num)
                  \o ", must-revalidate"

\* C24 (as claimed): on a 200 answer Cache-Control is added exactly when the
\* response has none of its own and the cache policy yields a positive number
\* N, with the value "private, max-age=N, must-revalidate"; a Cache-Control or
\* an ETag header set by the handler is never overwritten.
C24_CacheControl == \A i \in Requests : CacheControlRule(i, Positive(CacheSeconds(i)))

\* the same rule with "a number other than 0" for "a positive number"
CacheControlOfTruthy == \A i \in Requests : CacheControlRule(i, ToBoolean(CacheSeconds(i)))

-----------------------------------------------------------------------------
(***************************************************************************)
(* Properties of the content-type check                                    *)
(***************************************************************************)
\* the method carries a body
HasBody == request.method \notin {"GET", "HEAD"}

\* the primary token of the request's Content-Type: the part before ";"
PrimaryToken == mimeTypeOf(request.contentType)

\* the token is in the accept set exactly, or by family (type/*)
InAcceptSet(token, accepts) ==
  /\ token # <<>>
  /\ \/ token \in accepts
     \/ \E entry \in accepts : entry[3] = "*" /\ entry[1] = token[1]

\* the route has no accepts configuration: every content type is accepted
AcceptsAll == AnyType \in route.accepts

\* the request got as far as the content-type check: the route was found, the
\* request is no preflight, a handler exists and the route allows the method
Checked ==
  /\ RouteFound
  /\ ~IsPreflight(request, route)
  /\ getHandler(exports, request.method) # ""
  /\ ("*" \in Range(route.methods) \/ request.method \in Range(route.methods))

\* handleHTTPRequest let the request through to handleRoute
LetThrough == RouteFound /\ httpPc # "answered"

\* C25: a request whose method carries a body is let through to the handler
\* only if the primary token of its Content-Type is in the route's accept set,
\* exactly or by family, or the route accepts everything; one that got as far
\* as the check and fails it is answered 415 and no user code is invoked; a GET
\* or HEAD request is never answered 415, nor is any request to a route without
\* an accepts configuration.
C25_ContentTypeCheck ==
  /\ (LetThrough /\ HasBody) =>
       (AcceptsAll \/ InAcceptSet(PrimaryToken, route.accepts))
  /\ (Checked /\ HasBody /\ ~AcceptsAll /\ ~InAcceptSet(PrimaryToken, route.accepts)) =>
       (returned = UnsupportedMediaType /\ httpPc = "answered")
  /\ returned = UnsupportedMediaType => (calls = <<>> /\ httpPc = "answered")
  /\ (~HasBody \/ AcceptsAll) => returned # UnsupportedMediaType

\* C25 witness: a POST with Content-Type application/json to a route accepting
\* text/* and image/png was answered 415, no user code invoked.
C25_Witness ==
  /\ request = [method |-> "POST", contentType |-> <<"application", "/", "json">>]
  /\ route.accepts = {<<"text", "/", "*">>, <<"image", "/", "png">>}
  /\ returned = UnsupportedMediaType
  /\ calls = <<>>

\* a DELETE with Content-Type "text/plain; charset=utf-8" was accepted by family
\* and its handler invoked
C25_WitnessAccepted ==
  /\ request.method = "DELETE"
  /\ request.contentType = <<"text", "/", "plain", ";", " ", "charset=utf-8">>
  /\ route.accepts = {<<"text", "/", "*">>, <<"image", "/", "png">>}
  /\ Called("handler")

-----------------------------------------------------------------------------
(***************************************************************************)
(* The manifest: the table loadServices returns                            *)
(***************************************************************************)

\* the shape of a path: the path with every parameter name removed
RECURSIVE shapeOf(_)
shapeOf(path) ==
  IF Len(path) = 0 THEN <<>>
  ELSE IF Head(path) = ":" /\ Len(path) > 1 /\ IsWord(path[2])
  THEN <<":">> \o shapeOf(SubSeq(path, 3, Len(path)))
  ELSE <<Head(path)>> \o shapeOf(Tail(path))

Loaded == loadPc = "loaded" /\ services.returned
LoadFailed == loadPc = "failed" /\ ~services.returned /\ loadError.filename # <<>>

\* the files of the project, and the route each would give when loaded alone
Sources ==
  {project.api[k] : k \in 1..Len(project.api)}
    \cup {project.queues[k] : k \in 1..Len(project.queues)}
IsApi(file) == Head(file.filename) = "api"
PathOfSource(file) ==
  IF IsApi(file) THEN pathFromFilename(SubSeq(file.filename, 3, Len(file.filename)))
  ELSE IF file.url = NoUrl \/ Head(file.url) # "/" THEN Throw("no route")
  ELSE LET path == renamePathProperties(stripSlashes(renamePathProperties(file.url)))
       IN IF verifyPathParameters(path) = "" THEN Ok(path) ELSE Throw("no route")
SameShape(f, g) ==
  /\ f # g
  /\ PathOfSource(f).ok /\ PathOfSource(g).ok
  /\ shapeOf(PathOfSource(f).value) = shapeOf(PathOfSource(g).value)

\* in the table returned, no file under api/ has two routes and no two routes
\* have one shape
ShapesDiffer ==
  Loaded =>
    /\ \A j, k \in 1..Len(services.routes) :
         j # k => /\ shapeOf(services.routes[j].key) # shapeOf(services.routes[k].key)
                  /\ services.routes[j].value.filename # services.routes[k].value.filename
    /\ \A k \in 1..Len(services.routes) :
         \E f \in Sources : f.filename = services.routes[k].value.filename

\* C26: shape uniqueness. In every table the loader returns each file under
\* api/ has at most one route and any two routes, those of the queues' urls
\* included, differ in shape; when two sources of the project would give one
\* shape, loading fails with an error that names a file and returns no table.
C26_ShapeUniqueness ==
  /\ ShapesDiffer
  /\ (\E f, g \in Sources : SameShape(f, g)) /\ loadPc \in {"loaded", "failed"}
       => LoadFailed

\* the same, of sources that are files under api/ or queues of different names
DifferentQueues(f, g) ==
  IsApi(f) \/ IsApi(g)
    \/ queueNameFromFilename(f.filename).value # queueNameFromFilename(g.filename).value
ShapeUniquenessOfDifferentQueues ==
  /\ ShapesDiffer
  /\ (\E f, g \in Sources : SameShape(f, g) /\ DifferentQueues(f, g))
       /\ loadPc \in {"loaded", "failed"}
       => LoadFailed

\* the queue file the loop of loadQueues is at
AtQueueFile == loadPc = "loadQueues" /\ position <= Len(project.queues)
IsFifoFile(file) == Last(queueNameFromFilename(file.filename).value) = ".fifo"
HasParameter(path, name) ==
  \E k \in 1..Len(pathKeys(path)) : pathKeys(path)[k].name = name
\* a config.url without the parameter, written :group or [group]
LacksGroup(file) ==
  file.url # NoUrl /\ ~HasParameter(renamePathProperties(file.url), "group")
GroupText ==
  "FIFO queue must have a :group parameter in the URL, and optionally a :dedupe parameter"

FifoQueuesHaveGroup ==
  Loaded =>
    \A k \in 1..Len(services.queues) :
      LET queue == services.queues[k].value
      IN queue.isFifo /\ queue.path # NoUrl => HasParameter(queue.path, "group")

FifoWithoutGroupFails ==
  AtQueueFile /\ IsFifoFile(project.queues[position])
              /\ LacksGroup(project.queues[position])
    => /\ loadPc' = "failed"
       /\ loadError'.filename = project.queues[position].filename
       /\ ~services'.returned

\* the only errors of a standard queue's file are those of its accepts, of a
\* relative url and of its timeout, whatever the parameters of its url
StandardNeverRejectedForGroup ==
  AtQueueFile /\ ~IsFifoFile(project.queues[position]) /\ loadPc' = "failed"
    => LET file == project.queues[position]
       IN \/ checkContentTypeThrows(file.accepts)
          \/ file.url # NoUrl /\ Head(file.url) # "/"
          \/ ~loaderTimeout(file.timeout, queueTimeout).ok

\* C28: a FIFO queue's url needs :group. In every table the loader returns a
\* FIFO queue with a path has a parameter named group in it; loading a FIFO
\* queue's module whose config.url has no such parameter fails with an error
\* naming the file; a standard queue is never rejected for having or lacking
\* the parameter.
C28_FifoNeedsGroup ==
  [][/\ FifoQueuesHaveGroup'
     /\ FifoWithoutGroupFails
     /\ StandardNeverRejectedForGroup]_vars

\* a table is returned with a FIFO queue whose path has :group and a standard
\* queue whose path has it too
C28_Witness ==
  /\ Loaded
  /\ \E k \in 1..Len(services.queues) :
       LET queue == services.queues[k].value
       IN queue.isFifo /\ queue.path # NoUrl /\ HasParameter(queue.path, "dedupe")
  /\ \E k \in 1..Len(services.queues) :
       LET queue == services.queues[k].value
       IN ~queue.isFifo /\ queue.path # NoUrl /\ HasParameter(queue.path, "group")

\* loading failed at a FIFO queue's file whose url has :id only
C28_WitnessRejected ==
  /\ LoadFailed
  /\ loadError.text = GroupText
  /\ \E f \in Sources : f.filename = loadError.filename /\ IsFifoFile(f) /\ LacksGroup(f)

\* a timeout of the table that is a number of seconds from 1 to max
Within(timeout, max) ==
  timeout.type = "number" /\ ~timeout.nan /\ timeout.num \in 1..max
FileOf(filename) == CHOOSE f \in Sources : f.filename = filename
QueueNamed(name) ==
  CHOOSE k \in 1..Len(services.queues) : services.queues[k].key = name

\* the rule of the table's timeouts, asked of every timeout or of those only
\* that compare with a number
Bounded(timeout, max, comparable) ==
  (comparable /\ timeout.nan) \/ Within(timeout, max)
TimeoutRule(comparable) ==
  Loaded =>
    /\ \A k \in 1..Len(services.routes) :
         LET r == services.routes[k].value
         IN IF r.queue = <<>>
            THEN /\ Bounded(r.timeout, routeTimeout.max, comparable)
                 /\ FileOf(r.filename).timeout = NoTimeout
                      => r.timeout = Seconds(routeTimeout.default)
            ELSE r.timeout = services.queues[QueueNamed(r.queue)].value.timeout
    /\ \A k \in 1..Len(services.queues) :
         LET q == services.queues[k].value
         IN /\ Bounded(q.timeout, queueTimeout.max, comparable)
            /\ FileOf(q.filename).timeout = NoTimeout
                 => q.timeout = Seconds(queueTimeout.default)

\* C29: the manifest's timeouts. In every table the loader returns a route's
\* timeout is from 1 to 30 seconds and a queue's from 1 to 500, 30 seconds when
\* the module's config gives none, and a route of a queue has the queue's.
C29_TimeoutBounds == TimeoutRule(FALSE)

\* the same for every timeout that compares with a number
TimeoutBoundsOfComparable == TimeoutRule(TRUE)

\* the types a request may come with
MimeTypes ==
  {<<"application", "/", "json">>, <<"text", "/", "plain">>, <<"image", "/", "png">>}

\* the checkContentType of every route of the table accepts every type when
\* the config has no accepts, else the types listed, themselves or as type/*
ManifestContentType ==
  Loaded =>
    \A k \in 1..Len(services.routes) : \A type \in MimeTypes :
      LET accepts == services.routes[k].value.accepts
          listed == {accepts[j] : j \in 1..Len(accepts)}
      IN checkContentType(accepts, type)
           <=> \/ accepts = NoAccepts
               \/ type \in listed
               \/ <<type[1], "/", "*">> \in listed

-----------------------------------------------------------------------------
(***************************************************************************)
(* The URL builder                                                         *)
(***************************************************************************)

Built == urlPc = "built"

\* C27: the URL round trip. For every route of the manifest and every
\* incoming pathname its matcher matches with parameters p, url.for of the
\* route's template, written with colons or with brackets, gives for p in
\* relative form the incoming pathname again.
C27_UrlRoundTrip == Built => href = Ok(pathname)

\* the pathname as the template spells it: matched also when the "/" at the
\* end and the case of the letters count
SpelledAsTemplate == matchWith(routePath, Tail(pathname), Strict).ok

\* C27 as amended: the round trip of the pathnames spelled as the template
C27_UrlRoundTripOfSpelled == Built /\ SpelledAsTemplate => href = Ok(pathname)

\* every other pathname that is matched comes back as the one spelled as the
\* template, with the same parameters
UrlForNormalises ==
  Built => /\ href.ok
           /\ matchWith(routePath, Tail(href.value), Strict) = matched

\* a pathname of two segments under a catch-all parameter, written in
\* brackets, is built again
C27_Witness ==
  /\ Built /\ SpelledAsTemplate
  /\ written = <<"a", "/", "[", "...", "rest", "]">>
  /\ pathname = <<"/", "a", "/", "b", "/", "1">>
  /\ href = Ok(pathname)

\* a single parameter, written with a colon
C27_WitnessSingle ==
  /\ Built /\ SpelledAsTemplate
  /\ written = <<"/", "a", "/", ":", "x">>
  /\ pathname = <<"/", "a", "/", "A">>
  /\ href = Ok(pathname)

-----------------------------------------------------------------------------
(***************************************************************************)
(* The dispatcher's timeout and the limits of the manifest                 *)
(***************************************************************************)

\* config.timeout within the limits the loader gives a queue: at least 1
\* second, at most queueTimeout.max, queueTimeout.default when absent
TimeoutOfQueue(config) ==
  Min(Max(IF config.hasTimeout THEN config.timeout ELSE queueTimeout.default, 1),
      queueTimeout.max)

\* the timeout of message i is the given timeout of the config, unless the
\* remaining time is shorter
Applies(i, configured) ==
  LET t == Min(configured, dispatch[i].remainingTime)
  IN PastLoadModule(i) /\ t > 0 => dispatch[i].timeout = t

\* C30: the dispatcher's timeout limits. The configured timeout the dispatcher
\* applies to a message is the module's config.timeout, at most the 500
\* seconds of a queue and at least 1 second, and 30 seconds without
\* config.timeout.
C30_DispatcherTimeoutLimits ==
  \A i \in Ids : Applies(i, TimeoutOfQueue(module))

\* the same for a config.timeout of at most maxTimeout seconds
DispatcherTimeoutBelowMax ==
  \A i \in Ids :
    module.hasTimeout /\ module.timeout <= maxTimeout
      => Applies(i, TimeoutOfQueue(module))

\* the same limits asked of the runtime package's getTimeout, which gives 10
\* seconds at most
RuntimeTimeoutLimits ==
  module.present => getTimeoutOfRuntime(module) = TimeoutOfQueue(module)

-----------------------------------------------------------------------------
(***************************************************************************)
(* The paths of the manifest                                               *)
(***************************************************************************)

\* the rules of a path: every part a name or a parameter, no two parameters
\* of one name, a catch-all parameter only as the last parameter
FollowsRules(path) ==
  LET parts == SplitBy(path, "/")
      keys == pathKeys(path)
  IN /\ \A k \in 1..Len(parts) : isValidPathPartWhole(parts[k])
     /\ \A j, k \in 1..Len(keys) : j # k => keys[j].name # keys[k].name
     /\ \A k \in 1..Len(keys) : keys[k].modifier = "*" => k = Len(keys)

ApiSources == {project.api[k] : k \in 1..Len(project.api)}
DerivedPathOf(file) == derivedPath(SubSeq(file.filename, 3, Len(file.filename)))
AtApiFile == loadPc = "loadRoutes" /\ position <= Len(project.api)

\* no path of a returned table breaks the rules
PathsFollowRules ==
  Loaded => \A k \in 1..Len(services.routes) : FollowsRules(services.routes[k].key)

\* a turn of loadRoutes at a file whose path breaks the rules fails and names
\* the file
BrokenRulesFail ==
  AtApiFile /\ ~FollowsRules(DerivedPathOf(project.api[position]))
    => /\ loadPc' = "failed"
       /\ loadError'.filename = project.api[position].filename
       /\ ~services'.returned

\* C31: path validation. The loader fails with an error naming the file for
\* every route whose derived path breaks the rules of a path (a part that is
\* neither a name of letters, digits, "_" and "-" nor a parameter, two
\* parameters of one name, a catch-all that is not the last parameter), so no
\* such path is in a returned table.
C31_PathValidation == [][PathsFollowRules' /\ BrokenRulesFail]_vars

\* the same, but for the parts that begin with a name or end with a parameter
\* and are neither
BeginsOrEndsWell(path) ==
  \E part \in Range(SplitBy(path, "/")) :
    isValidPathPart(part) /\ ~isValidPathPartWhole(part)
PathValidationOfParameters ==
  [][/\ Loaded' => \A k \in 1..Len(services'.routes) :
                     \/ FollowsRules(services'.routes[k].key)
                     \/ BeginsOrEndsWell(services'.routes[k].key)
     /\ AtApiFile /\ ~FollowsRules(DerivedPathOf(project.api[position]))
                  /\ ~BeginsOrEndsWell(DerivedPathOf(project.api[position]))
          => loadPc' = "failed" /\ loadError'.filename = project.api[position].filename]_vars

-----------------------------------------------------------------------------
(***************************************************************************)
(* WebSocket events                                                        *)
(***************************************************************************)

Disconnects == {k \in 1..Len(socketEvents) : socketEvents[k].eventType = "DISCONNECT"}
Connects == {k \in 1..Len(socketEvents) : socketEvents[k].eventType = "CONNECT"}
OnOfflineCalls(k) == Cardinality({j \in 1..Len(onOfflineLog) : onOfflineLog[j].event = k})

\* a disconnect past the store has its connection removed, and when it has
\* returned it is answered 200 and has called onOffline once with the user
\* that went offline, or not at all
DisconnectDone ==
  \A k \in Disconnects :
    /\ socketEvents[k].pc # "onDisconnected"
         => socketEvents[k].connectionId \notin DOMAIN connections
    /\ socketEvents[k].pc = "returned"
         => /\ socketEvents[k].answer.statusCode = 200
            /\ OnOfflineCalls(k) =
                 IF socketEvents[k].wentOffline /\ socketEvents[k].userId # NoUserId
                 THEN 1 ELSE 0
            /\ \A j \in 1..Len(onOfflineLog) :
                 onOfflineLog[j].event = k => onOfflineLog[j].userId = socketEvents[k].userId
    /\ socketEvents[k].pc # "returned" /\ socketEvents[k].pc # "handleUserOffline"
         => OnOfflineCalls(k) = 0

\* a disconnect goes on to onOffline exactly when its step at the store took
\* the last connection of a user away
OfflineOnLastConnection ==
  \A k \in Disconnects :
    socketEvents[k].pc = "onDisconnected" /\ socketEvents'[k].pc # "onDisconnected"
      => LET c == socketEvents[k].connectionId
             last == /\ c \in DOMAIN connections
                     /\ connections[c] # NoUserId
                     /\ ConnectionsOf(connections[c]) # {}
                     /\ \A b \in DOMAIN connections' : connections'[b] # connections[c]
         IN socketEvents'[k].pc = "handleUserOffline" <=> last

\* C32: WebSocket disconnect. On a Disconnect event the connection's entry is
\* removed from the store and onOffline(userId) is called exactly once if and
\* only if the store reports the user's last connection gone (wentOffline with
\* a userId); over the disconnects of a user's connections onOffline fires
\* only on the transition to no connections, and the event is answered 200.
C32_Disconnect == [][DisconnectDone' /\ OfflineOnLastConnection]_vars

\* both connections of u1 were closed and onOffline was called once, by the
\* disconnect that took the last of them
C32_Witness ==
  /\ Cardinality(Disconnects) = 2
  /\ \A k \in Disconnects : socketEvents[k].pc = "returned" /\ socketEvents[k].userId = "u1"
  /\ \E k \in Disconnects : ~socketEvents[k].wentOffline
  /\ Len(onOfflineLog) = 1 /\ onOfflineLog[1].userId = "u1"
  /\ connections = <<>>

\* the answers of a connect: 204 when authentication resolved, the status
\* (403 without one) and body of a Response it threw, 500 for anything else
\* thrown; a connect that threw has bound no connection
ConnectAnswers ==
  \A k \in Connects :
    socketEvents[k].pc = "returned" =>
      LET e == socketEvents[k]
      IN /\ ~e.threw => e.answer = APIGatewayResponse(204, "")
         /\ e.threw /\ e.thrown.isResponse
              => /\ e.answer.statusCode = IF e.thrown.hasStatus THEN e.thrown.status ELSE 403
                 /\ e.answer.body = e.thrown.body
         /\ e.threw /\ ~e.thrown.isResponse
              => e.answer = APIGatewayResponse(500, "Internal Server Error")
         /\ e.threw => e.connectionId \notin DOMAIN connections

\* C33: WebSocket connect acceptance. A Connect event is answered 204 only if
\* authentication completed without throwing; a Response it threw gives the
\* answer its status (403 without one) and body, any other failure gives 500;
\* so a failed or rejected authentication never yields 204.
C33_ConnectAcceptance ==
  /\ ConnectAnswers
  /\ \A k \in Connects : socketEvents[k].answer.statusCode = 204 => ~socketEvents[k].threw

\* C33 as amended: 204 only if authentication completed without throwing or
\* threw a Response whose own status is 204
C33_ConnectAcceptanceOfStatus ==
  /\ ConnectAnswers
  /\ \A k \in Connects :
       socketEvents[k].answer.statusCode = 204
         => \/ ~socketEvents[k].threw
            \/ /\ socketEvents[k].thrown.isResponse
               /\ socketEvents[k].thrown.hasStatus /\ socketEvents[k].thrown.status = 204

\* one connect was answered with the 401 Response authentication threw, one
\* with 403 for a Response without a status
C33_Witness ==
  /\ \E k \in Connects :
       /\ socketEvents[k].threw /\ socketEvents[k].thrown.status = 401
       /\ socketEvents[k].answer = APIGatewayResponse(401, "Unauthorized")
  /\ \E k \in Connects :
       /\ socketEvents[k].threw /\ socketEvents[k].thrown.isResponse
       /\ ~socketEvents[k].thrown.hasStatus
       /\ socketEvents[k].answer.statusCode = 403

(***************************************************************************)
(* Abandoned pipelines                                                     *)
(***************************************************************************)
\* the calls of user code the step adds to those made so far
NewCalls == {calls'[i] : i \in (Len(calls) + 1)..Len(calls')}

\* the answer 500 "Timed Out", once given, is the answer for good
TimedOutAnswerStays == [][returned = TimedOut => returned' = TimedOut]_vars

\* C34: abandoned handlers have no further effect. Once the request has been
\* answered 500 "Timed Out", the response returned is not changed and neither
\* onResponse nor onError is invoked for the request any more.
C34_AbandonedHandlers ==
  [][returned = TimedOut
       => /\ returned' = TimedOut
          /\ \A c \in NewCalls : ~(c.ev = "call" /\ c.fn \in {"onResponse", "onError"})]_vars

(***************************************************************************)
(* Standard batches: one message does not touch another                    *)
(***************************************************************************)
StandardBatch == ~isFifoQueue(queueName)

InSeq(x, s) == \E k \in 1..Len(s) : s[k] = x

\* the messages whose handleOneMessage call the step moves
Moved == {i \in Ids : dispatch'[i] # dispatch[i]}

\* a step of one call changes that call only: the deletion it makes and the
\* handler invocation it logs are of its own message
StepOfOne ==
  batchPc # "running"
    => /\ Cardinality(Moved) <= 1
       /\ deleted' \ deleted \subseteq {messageId(i) : i \in Moved}
       /\ \A k \in (Len(handlerLog) + 1)..Len(handlerLog') : handlerLog'[k] \in Moved

\* a call that is under way can take its next step whatever the other calls did
StepEnabled ==
  \A i \in 1..Len(batch) :
    /\ dispatch[i].pc = "loadModule" => ENABLED LoadModule(i)
    /\ dispatch[i].pc = "race" => ENABLED HandlerReturns(i) /\ ENABLED HandlerThrows(i)
    /\ dispatch[i].pc = "region" => ENABLED RegionResolves(i)
    /\ dispatch[i].pc = "deleteMessage" => ENABLED DeleteMessageSucceeds(i)
    /\ dispatch[i].pc = "onError" => ENABLED OnErrorSettles(i)

\* what became of a message follows from its own call: its handler was invoked
\* unless its own time was up or its own payload did not parse, it is deleted
\* when its own call succeeded, and it is reported exactly when its own call failed
OwnOutcome ==
  /\ batchPc = "returned"
       => \A i \in 1..Len(batch) :
            /\ InSeq(messageId(i), batchItemFailures) <=> dispatch[i].pc = "returnedFalse"
            /\ dispatch[i].pc = "returnedTrue"
                 => /\ dispatch[i].handler = "returned"
                    /\ region # "localhost" => messageId(i) \in deleted
            /\ dispatch[i].handler = "notInvoked"
                 => \/ EffectiveTimeout(dispatch[i]) <= 0
                    \/ dispatch[i].abortTimeout # "none"
  /\ batchPc = "rejected" => ~module.present

\* C35: standard messages are independent. In a standard batch every message's
\* handler is invoked whatever became of the other messages: the failure,
\* timeout or onError failure of one message neither keeps another message's
\* handler from running, nor keeps another message from being deleted, nor has
\* another message reported as failed.
C35_StandardIndependent ==
  [][StandardBatch => StepOfOne /\ StepEnabled' /\ OwnOutcome']_vars

\* of two messages the first timed out and its onError threw, the second was
\* handled, deleted and is not in the report
C35_Witness ==
  /\ StandardBatch /\ batchPc = "returned" /\ Len(batch) = 2
  /\ dispatch[1].abortTimeout = "fired" /\ dispatch[1].onErrorResult = "threw"
  /\ dispatch[1].pc = "returnedFalse"
  /\ dispatch[2].pc = "returnedTrue" /\ 2 \in deleted /\ InSeq(2, handlerLog)
  /\ batchItemFailures = <<1>>

(***************************************************************************)
(* The delay of the abort timer                                            *)
(***************************************************************************)
\* the calls whose abort timer has been set
TimerSet == {i \in 1..Len(batch) : dispatch[i].abortTimeout # "none"}

\* the delay is never longer than the timeout of the queue's config, in seconds
DelayWithinConfigured ==
  \A i \in TimerSet : AbortDelay(dispatch[i]) <= getTimeout(module) * 1000

\* C36: the per-message deadline stays inside the batch budget. The delay after
\* which handleOneMessage fires the cancellation signal of a message is never
\* longer than the remaining batch time the host reported, in milliseconds,
\* when the message was dispatched, and never longer than the configured
\* timeout, in seconds.
C36_DeadlineInsideBudget ==
  \A i \in TimerSet :
    /\ AbortDelay(dispatch[i]) <= dispatch[i].remainingTime
    /\ AbortDelay(dispatch[i]) <= getTimeout(module) * 1000

(***************************************************************************)
(* The user is pinned before the handler                                   *)
(***************************************************************************)
\* once the handler has been invoked, handleRoute has opened the request's
\* context and its cell holds the user the handler is given: the user
\* authenticate returned, or no user without an authenticate middleware; after
\* a failure of onRequest or authenticate the cell is unassigned
PinnedForHandler ==
  /\ Called("handler")
       => /\ timer # "none"
          /\ storeUser = [set |-> TRUE, user |-> user]
          /\ middleware.authenticate
               => outcome["authenticate"] = "returned" /\ HasId(user)
          /\ ~middleware.authenticate => user = NoUser
  /\ outcome["onRequest"] \in {"threwResponse", "threwError"} => ~storeUser.set
  /\ outcome["authenticate"] \in {"threwResponse", "threwError"} => ~storeUser.set
  /\ (outcome["authenticate"] = "returned" /\ ~HasId(user)) => ~storeUser.set

\* the cell is assigned in one step only: it was unassigned, authenticate (if
\* there is one) has returned by then, and the step ends with the handler's call
PinStep ==
  storeUser' # storeUser
    => /\ ~storeUser.set /\ storeUser'.set
       /\ ~Called("handler")
       /\ calls'[Len(calls')] = [ev |-> "call", fn |-> "handler"]
       /\ middleware.authenticate
            => calls'[Len(calls') - 1] = [ev |-> "end", fn |-> "authenticate"]

\* C37: the user is pinned before the handler. For every request that reaches
\* the handler a fresh context was opened and its user cell was assigned exactly
\* once, with the user authenticate returned or with no user when there is no
\* authenticate middleware, after authenticate returned and before the handler
\* is invoked; the handler's metadata has that same user; when onRequest or
\* authenticate fails the cell is never assigned.
C37_UserPinned == [][PinnedForHandler' /\ PinStep]_vars

\* the handler was invoked after authenticate returned the user u1, and the
\* cell holds that user
C37_Witness ==
  /\ Called("handler") /\ middleware.authenticate /\ middleware.onRequest
  /\ user = UserWithId
  /\ storeUser = [set |-> TRUE, user |-> UserWithId]

\* the handler was invoked without an authenticate middleware, with no user
C37_WitnessNoAuthenticate ==
  /\ Called("handler") /\ ~middleware.authenticate
  /\ storeUser = [set |-> TRUE, user |-> NoUser]

(***************************************************************************)
(* The checks before the pipeline, in their order                          *)
(***************************************************************************)
\* the request fails the method check: the module exports no handler for the
\* method, or the route's methods do not have it
MethodFails ==
  \/ getHandler(exports, request.method) = ""
  \/ ~("*" \in Range(route.methods) \/ request.method \in Range(route.methods))

\* the request fails the content-type check: it has a body, the route does not
\* accept every type, and the type of the request is none the route accepts
ContentTypeFails ==
  LET mimeType == mimeTypeOf(request.contentType)
  IN /\ request.method \notin {"GET", "HEAD"}
     /\ AnyType \notin route.accepts
     /\ \/ mimeType = <<>>
        \/ /\ mimeType \notin route.accepts
           /\ (Before(mimeType, "/") \o <<"/", "*">>) \notin route.accepts

\* the answer handleHTTPRequest gives by itself, by the first check that fails
PreCheckAnswer ==
  httpPc = "answered" /\ route.found # "failed"
    => returned = IF route.found = "notFound" THEN NotFound
                  ELSE IF IsPreflight(request, route) THEN NoContent
                  ELSE IF MethodFails THEN MethodNotAllowed
                  ELSE UnsupportedMediaType

\* a request goes on to handleRoute only when it passes every check
PreChecksPassed ==
  httpPc \notin {"findRoute", "answered"}
    => /\ route.found = "found" /\ ~IsPreflight(request, route)
       /\ ~MethodFails /\ ~ContentTypeFails

\* C38: pre-check precedence without user code. The checks run in the order
\* route lookup (404), CORS preflight, method check (405), content-type check
\* (415), so a request that fails both the method check and the content-type
\* check is answered 405; for every request answered 404, 405 or 415 by these
\* checks no context is opened and none of onRequest, authenticate, the
\* handler, onResponse and onError is invoked.
C38_PreCheckPrecedence ==
  /\ PreCheckAnswer
  /\ PreChecksPassed
  /\ (httpPc = "answered" /\ returned = UnsupportedMediaType) => ContentTypeFails /\ ~MethodFails
  /\ (httpPc = "answered" /\ returned.status \in {404, 405, 415}) => PipelineNotEntered

\* a POST of image/png to a route for GET that accepts application/json, whose
\* module exports a handler for it: both checks fail and the answer is 405
C38_Witness ==
  /\ httpPc = "answered" /\ returned = MethodNotAllowed
  /\ route.found = "found" /\ ~IsPreflight(request, route)
  /\ getHandler(exports, request.method) # ""
  /\ MethodFails
  /\ ContentTypeFails
  /\ PipelineNotEntered

(***************************************************************************)
(* handleHTTPRequest always answers                                        *)
(***************************************************************************)
\* handleHTTPRequest has settled: it answered by itself, handleRoute threw, the
\* pipeline resolved, or the deadline settled the race
RequestOver ==
  \/ httpPc \in {"answered", "rejected", "done"}
  \/ timer = "fired"

IsAnswer(r) == r # NoResponse /\ r.status \in 100..599

\* C39: handleHTTPRequest never fails. For every request and every behaviour of
\* the route's middleware and handler (returning, throwing a Response, throwing
\* any other value) handleHTTPRequest resolves with a Response and never
\* rejects; a failure that is not a Response and is raised outside the
\* middleware pipeline (route lookup, context creation) is answered with 500
\* "Internal Server Error".
C39_NeverFails ==
  /\ RequestOver => IsAnswer(returned)
  /\ httpPc = "done" => returned \in {result, TimedOut}
  /\ (httpPc = "answered" /\ route.found = "failed") => returned = InternalServerError
  /\ httpPc = "rejected" => returned = InternalServerError

\* the handler threw a value, onResponse threw an error and onError threw too:
\* the answer is the 500
C39_Witness ==
  /\ httpPc = "done" /\ returned = InternalServerError
  /\ outcome["handler"] = "threwError"
  /\ outcome["onResponse"] = "threwError"
  /\ outcome["onError"] = "threwError"

\* handleRoute threw before its pipeline started: the answer is the 500
C39_WitnessOutside == httpPc = "rejected" /\ returned = InternalServerError

(***************************************************************************)
(* Message groups of the runtime's handleSQSMessages                       *)
(***************************************************************************)
\* the messages of the group of message i that came before it in the event
EarlierInGroup(i) ==
  {j \in 1..(i - 1) : isSQSMessage(records[j])
                        /\ records[j].MessageGroupId = records[i].MessageGroupId}

\* each record is handled at most once, and only if it is an SQS record
HandledAtMostOnce ==
  /\ \A k, l \in 1..Len(invoked) : invoked[k] = invoked[l] => k = l
  /\ \A i \in RecordIds :
       (i > Len(records) \/ ~isSQSMessage(records[i])) => oneMessage[i] = "pending"

\* in a group one message is under way at a time, and a message is taken up
\* only when every message of its group before it has succeeded: in arrival
\* order, and none after the first failure
GroupInOrder ==
  \A i \in 1..Len(records) :
    isFifoMessage(records[i]) =>
      /\ InFlight(i) => \A j \in EarlierInGroup(i) : ~InFlight(j)
      /\ oneMessage[i] # "pending" => \A j \in EarlierInGroup(i) : oneMessage[j] = "returnedTrue"
      /\ oneMessage[i] = "pending" => i \notin removed /\ ~InSeq(i, invoked)

\* the messages left in the array of a group whose handleFifoGroup has settled
\* with the given outcomes are back in the queue, unhandled and not deleted
RemainingReturned(outcomes) ==
  \A g \in GroupIds :
    groupPc[g] \in outcomes =>
      \A i \in Range(groups[g]) :
        visibilityTimeout[i] = 0 /\ oneMessage[i] = "pending" /\ i \notin removed

\* whatever became of the other groups and of the standard messages, a call of
\* handleOneMessage under way can take its next step and a group whose message
\* has settled can take its next
OthersGoOn ==
  /\ \A i \in 1..Len(records) :
       /\ oneMessage[i] = "loadModule" => ENABLED LoadModuleOfRuntime(i)
       /\ oneMessage[i] = "race" => ENABLED HandlerSettlesOfRuntime(i)
       /\ oneMessage[i] = "deleteMessage" => ENABLED DeleteMessageSettlesOfRuntime(i)
  /\ \A g \in GroupIds :
       (groupPc[g] = "handling" /\ ~InFlight(groupMessage[g])) => ENABLED HandleFifoGroup(g)

\* the rules of the groups, for a handleFifoGroup that resolved
GroupsIsolatedWhenResolved ==
  HandledAtMostOnce /\ GroupInOrder /\ RemainingReturned({"resolved"}) /\ OthersGoOn

\* C40: message groups are isolated. handleSQSMessages partitions the SQS
\* records of an event into standard messages and FIFO groups keyed by
\* MessageGroupId, and each record is handled at most once; in a group the
\* messages are handled one at a time in arrival order and the group stops at
\* its first failure, the messages left being returned to the queue
\* (visibility timeout 0) without being handled or deleted; a failure in one
\* group never stops the messages of another group or the standard messages.
C40_GroupsIsolated ==
  /\ HandledAtMostOnce
  /\ GroupInOrder
  /\ RemainingReturned({"resolved", "rejected"})
  /\ OthersGoOn
=============================================================================
